---- MODULE Spec2Model ----
(***************************************************************************)
(* SonicUX: the voice lifecycle of SynthEngine (core/synth-engine.ts) and  *)
(* the SonicUX facade with its attached behaviors (index.ts, behaviors/).  *)
(*                                                                         *)
(* A voice identifier voice_<n> is modelled by the number n; the failure   *)
(* sentinel '' by NoVoice.  The backend instance (Tone synth) created for  *)
(* a voice is modelled by the log of the calls it has received:            *)
(* "A" triggerAttack, "AR" triggerAttackRelease, "R" triggerRelease,       *)
(* "D" dispose.  A pending setTimeout callback is an element of the bag    *)
(* timers; the delays are chosen by the callers, so pending callbacks may  *)
(* fire in any order.                                                      *)
(*                                                                         *)
(* Further parts, each with its own specification: HarmonyManager          *)
(* (core/harmony.ts), the navigation-chord crossfade of the basic-usage    *)
(* example (main.js, timed in ticks) with its gains and frame loop,        *)
(* ContinuousBehavior's held-note session (behaviors/continuous.ts),       *)
(* DroneBehavior's start and stop (behaviors/drone.ts), and the master     *)
(* volume under mute, setVolume and setPreset.                             *)
(***************************************************************************)
EXTENDS Integers, Sequences, FiniteSets, Bags, TLC

\* ------------------------------------------------------------------ bounds
MaxVoices == 3
MaxReleases == 2
MaxPolyphony == 2
MaxDestroyTimers == 1
MaxChord == 2
MaxDegree == 9
MaxPitch == 127
MaxNavTriggers == 3
MaxMonoSynths == 2
MaxMoves == 2
MaxStamp == 9
MaxDroneStarts == 3
MaxDroneStops == 3

\* ------------------------------------------------------------- vocabulary
NoVoice == -1
VoiceIds == 0..(MaxVoices - 1)
\* voices.ts: the registry the facade registers after init
KnownVoices == {"bell", "pluck", "pad", "synth", "marimba"}
\* the names a host registers on a bare engine, and the names it asks for
RegisterNames == {"synth"}
RequestNames == {"synth", "unregistered"}
BehaviorNames == {"pluck", "hoverSound", "chordPad", "arpeggio"}

VARIABLES
    isInitialized,    \* SynthEngine.isInitialized
    initPending,      \* an init() call is awaiting reverb.generate()
    chainBuilt,       \* SynthEngine.masterVolume (and the chain) exists
    voices,           \* SynthEngine.voices: the registered voice names
    polyphony,        \* SynthEngine.config.polyphony
    activeVoices,     \* SynthEngine.activeVoices: id -> [startTime]
    nextVoiceId,      \* SynthEngine.nextVoiceId
    now,              \* the last reading of Tone.now()
    timers,           \* the pending setTimeout callbacks (a bag)
    synthLog,         \* per voice id, the calls its backend instance received
    isMuted,          \* SynthEngine.isMuted
    masterOut,        \* the master volume's ramp target: "level" or "silent"
    isEnabled,        \* SonicUX.isEnabled
    attached,         \* the behaviors whose listeners are attached
    activeChords,     \* ChordPadBehavior.activeChords for the element
    arpActive,        \* ArpeggioBehavior.activePatterns has the element
    lastOp,           \* the last call made or callback fired, with its result
    rootNote,         \* HarmonyManager.rootNote
    state,            \* HarmonyManager.state (undefined until the constructor assigns it)
    raised,           \* the HarmonyManager constructor raised a TypeError
    everLocked,       \* lockHarmony() has been called on this manager
    chordExplicit,    \* setChord(notes) has been called on this manager
    fnOut,            \* the query just made of the manager, with its result
    chordPool,        \* HarmonyManager.chordPool
    chordSetLocked,   \* setChord(notes) has been called while harmony was locked
    hTrail,           \* the last calls made of the manager, each with the state before it
    releaseLog,       \* the triggerRelease calls of the last engine call: voice and release time (ms)
    navStarted,           \* main.js: navSynthA and navSynthB exist
    activeNavIndex,       \* main.js: activeNavIndex
    navNotes,             \* main.js: navNotes, per buffer the chord on record
    navReleaseTimeouts,   \* main.js: navReleaseTimeouts, per buffer a timer handle
    navHoldTimeouts,      \* main.js: navHoldTimeouts, per buffer a timer handle
    navTimers,            \* the pending setTimeout callbacks of playNavChord
    navSounding,          \* per nav synth, the notes attacked and not released
    navNextTimer,         \* the handle the next setTimeout returns
    navGen,               \* the number of chords playNavChord has triggered
    navCancelled,         \* a retrigger cleared a pending timer of its buffer
    navSince,             \* ticks since the last playNavChord (capped)
    contAttached,         \* ContinuousBehavior.attach has run for the element
    activeSynths,         \* ContinuousBehavior.activeSynths entry of the element
    monoLog,              \* per MonoSynth created, the calls it received
    contTimers,           \* the pending dispose callbacks (a bag of MonoSynths)
    nextMono,             \* the number of MonoSynths created so far
    pointerIsDown,        \* the pointer is held down (since a pointerdown on the element)
    droneIsActive,        \* DroneBehavior.isActive
    droneVoices,          \* DroneBehavior.voices: the starts whose synths it holds
    droneLog,             \* per start(), the calls its synths received
    droneTimers,          \* the pending cleanup callbacks of stop()
    droneNext,            \* the number of the next start() that creates synths
    droneWanted,          \* the last drone call made was start()
    navGain,              \* main.js: navGainA / navGainB volume.value (dB)
    navRamp               \* per nav gain, the rampTo in progress: its goal and the ticks left

engineVars == <<isInitialized, initPending, chainBuilt, voices, polyphony,
                activeVoices, nextVoiceId, now, timers, synthLog, isMuted,
                masterOut>>
facadeVars == <<isEnabled, attached, activeChords, arpActive>>
harmonyVars == <<rootNote, state, raised, everLocked, chordExplicit, fnOut,
                 chordPool, chordSetLocked>>
trailVars == <<hTrail, releaseLog>>
navVars == <<navStarted, activeNavIndex, navNotes, navReleaseTimeouts,
             navHoldTimeouts, navTimers, navSounding, navNextTimer, navGen,
             navCancelled, navSince>>
contVars == <<contAttached, activeSynths, monoLog, contTimers, nextMono,
              pointerIsDown>>
droneVars == <<droneIsActive, droneVoices, droneLog, droneTimers, droneNext,
               droneWanted>>
gainVars == <<navGain, navRamp>>
otherVars == <<harmonyVars, navVars, contVars, trailVars, droneVars, gainVars>>
vars == <<engineVars, facadeVars, lastOp, otherVars>>

\* ---------------------------------------------------------------- helpers
CleanupTimer(id) == [kind |-> "cleanup", id |-> id]
DestroyTimer == [kind |-> "destroy", id |-> NoVoice]
TimerUniverse == {CleanupTimer(id) : id \in VoiceIds \cup {NoVoice}} \cup {DestroyTimer}

Count(seq, x) == Cardinality({i \in 1..Len(seq) : seq[i] = x})

Op(name, id, ret) == [op |-> name, id |-> id, ret |-> ret]

\* A HarmonyManager whose constructor has not assigned this.state yet.
UndefinedState ==
    [defined |-> FALSE, key |-> "", mode |-> "", scale |-> <<>>,
     chord |-> <<>>, isLocked |-> FALSE]
NoQuery == [fn |-> "none", arg |-> <<>>, result |-> <<>>]

DefaultChordPool == <<"I", "IV", "V", "vi">>

HarmonyIdle ==
    /\ rootNote = 0
    /\ state = UndefinedState
    /\ raised = FALSE
    /\ everLocked = FALSE
    /\ chordExplicit = FALSE
    /\ fnOut = NoQuery
    /\ chordPool = DefaultChordPool
    /\ chordSetLocked = FALSE

\* no call recorded
TrailIdle == hTrail = <<>> /\ releaseLog = <<>>

\* main.js before the start button: no nav synth, nothing on record
NoChord == [notes |-> {}, gen |-> 0]
NoTimer == 0
Buffers == {0, 1}

NavIdle ==
    /\ navStarted = FALSE
    /\ activeNavIndex = 0
    /\ navNotes = [i \in Buffers |-> NoChord]
    /\ navReleaseTimeouts = [i \in Buffers |-> NoTimer]
    /\ navHoldTimeouts = [i \in Buffers |-> NoTimer]
    /\ navTimers = {}
    /\ navSounding = [i \in Buffers |-> {}]
    /\ navNextTimer = 1
    /\ navGen = 0
    /\ navCancelled = FALSE
    /\ navSince = 0

\* a ContinuousBehavior as constructed: nothing attached, no MonoSynth
NoSynth == 0
MonoIds == 1..MaxMonoSynths

ContIdle ==
    /\ contAttached = FALSE
    /\ activeSynths = NoSynth
    /\ monoLog = [m \in MonoIds |-> <<>>]
    /\ contTimers = EmptyBag
    /\ nextMono = 1
    /\ pointerIsDown = FALSE

\* the parts of the program a specification leaves untouched
\* a DroneBehavior as constructed
DroneStarts == 1..MaxDroneStarts

DroneIdle ==
    /\ droneIsActive = FALSE
    /\ droneVoices = {}
    /\ droneLog = [g \in DroneStarts |-> <<>>]
    /\ droneTimers = 0
    /\ droneNext = 1
    /\ droneWanted = FALSE

\* main.js init(): new Tone.Volume(-60) for each nav buffer
NavSilentDb == -60

\* no ramp scheduled on a gain
NoRamp == [goal |-> NavSilentDb, left |-> 0]

GainIdle ==
    /\ navGain = [b \in Buffers |-> NavSilentDb]
    /\ navRamp = [b \in Buffers |-> NoRamp]

OthersIdle == HarmonyIdle /\ NavIdle /\ ContIdle /\ TrailIdle /\ DroneIdle /\ GainIdle

\* The part of the engine state that playNote, stopNote and the cleanups
\* change, as one record, so that a handler's calls compose.
Eng == [activeVoices |-> activeVoices, nextVoiceId |-> nextVoiceId,
        now |-> now, timers |-> timers, synthLog |-> synthLog]

SetEng(e) ==
    /\ activeVoices' = e.activeVoices
    /\ nextVoiceId' = e.nextVoiceId
    /\ now' = e.now
    /\ timers' = e.timers
    /\ synthLog' = e.synthLog

\* The bounds of the model: ids, releases per voice, pending destroy timers.
WithinBounds(e) ==
    /\ e.nextVoiceId <= MaxVoices
    /\ \A id \in VoiceIds :
          Count(e.synthLog[id], "R") + Count(e.synthLog[id], "AR") <= MaxReleases
    /\ CopiesIn(DestroyTimer, e.timers) <= MaxDestroyTimers

\* ------------------------------------------------------------ SynthEngine
\* cleanupVoice without its look-up of the registry
CleanupVoiceUnchecked(e, id) ==
    [e EXCEPT
        !.synthLog[id] = Append(@, "D"),
        !.activeVoices = [v \in (DOMAIN e.activeVoices) \ {id} |-> e.activeVoices[v]]]

\* cleanupVoice(voiceId)
CleanupVoiceOn(e, id) ==
    IF id \notin DOMAIN e.activeVoices THEN e
    ELSE [e EXCEPT
            !.synthLog[id] = Append(@, "D"),
            !.activeVoices = [v \in (DOMAIN e.activeVoices) \ {id} |-> e.activeVoices[v]]]

\* stopNote scheduling its cleanup before it looks the voice up
StopNoteTimerFirst(e, id) ==
    LET e1 == [e EXCEPT !.timers = @ (+) SetToBag({CleanupTimer(id)})]
    IN IF id \notin DOMAIN e.activeVoices THEN e1
       ELSE [e1 EXCEPT !.synthLog[id] = Append(@, "R")]

\* stopNote(voiceId, releaseTime)
StopNoteOn(e, id) ==
    IF id \notin DOMAIN e.activeVoices THEN e
    ELSE [e EXCEPT
            !.synthLog[id] = Append(@, "R"),
            !.timers = @ (+) SetToBag({CleanupTimer(id)})]

\* a steal that takes the voice registered first
OldestIdFirstInserted(e) ==
    IF DOMAIN e.activeVoices = {} THEN NoVoice
    ELSE CHOOSE id \in DOMAIN e.activeVoices : \A j \in DOMAIN e.activeVoices : j >= id

\* stealVoice's scan: the first voice, in the Map's insertion order (the order
\* of the ids), whose startTime is strictly below every earlier minimum.
OldestId(e) ==
    IF DOMAIN e.activeVoices = {} THEN NoVoice
    ELSE CHOOSE id \in DOMAIN e.activeVoices :
            \A j \in DOMAIN e.activeVoices :
                \/ e.activeVoices[j].startTime > e.activeVoices[id].startTime
                \/ (e.activeVoices[j].startTime = e.activeVoices[id].startTime /\ j >= id)

\* stealVoice()
StealVoiceOn(e) ==
    IF OldestId(e) = NoVoice THEN e ELSE StopNoteOn(e, OldestId(e))

\* stopAllNotes(): stopNote on every key of activeVoices, in order
RECURSIVE StopEach(_, _)
StopEach(e, ids) ==
    IF ids = {} THEN e
    ELSE LET id == CHOOSE i \in ids : \A j \in ids : i <= j
         IN StopEach(StopNoteOn(e, id), ids \ {id})

\* stopAllNotes whose loop ends after the first key
StopAllNotesFirstOnly(e) ==
    IF DOMAIN e.activeVoices = {} THEN e
    ELSE StopNoteOn(e, CHOOSE i \in DOMAIN e.activeVoices :
                          \A j \in DOMAIN e.activeVoices : i <= j)

StopAllNotesOn(e) == StopEach(e, DOMAIN e.activeVoices)

\* playNote that schedules no cleanup for a note with a duration
PlayNoteNoCleanup(e, timed, voiceName, dt) ==
    IF ~isInitialized THEN [e |-> e, ret |-> NoVoice, stole |-> NoVoice]
    ELSE
      LET full == Cardinality(DOMAIN e.activeVoices) >= polyphony
          e1 == IF full THEN StealVoiceOn(e) ELSE e
          stole == IF full THEN OldestId(e) ELSE NoVoice
      IN IF voiceName \notin voices
         THEN [e |-> e1, ret |-> NoVoice, stole |-> stole]
         ELSE
           LET id == e1.nextVoiceId
               t == e1.now + dt
               e2 == [e1 EXCEPT
                        !.nextVoiceId = id + 1,
                        !.now = t,
                        !.activeVoices = [v \in (DOMAIN e1.activeVoices) \cup {id} |->
                                            IF v = id THEN [startTime |-> t]
                                            ELSE e1.activeVoices[v]],
                        !.synthLog[id] = IF timed THEN <<"AR">> ELSE <<"A">>]
           IN [e |-> e2, ret |-> id, stole |-> stole]

\* playNote without the isInitialized test
PlayNoteUngated(e, timed, voiceName, dt) ==
    LET full == Cardinality(DOMAIN e.activeVoices) >= polyphony
        e1 == IF full THEN StealVoiceOn(e) ELSE e
        stole == IF full THEN OldestId(e) ELSE NoVoice
    IN IF voiceName \notin voices
       THEN [e |-> e1, ret |-> NoVoice, stole |-> stole]
       ELSE
         LET id == e1.nextVoiceId
             t == e1.now + dt
             e2 == [e1 EXCEPT
                      !.nextVoiceId = id + 1,
                      !.now = t,
                      !.activeVoices = [v \in (DOMAIN e1.activeVoices) \cup {id} |->
                                          IF v = id THEN [startTime |-> t]
                                          ELSE e1.activeVoices[v]],
                      !.synthLog[id] = IF timed THEN <<"AR">> ELSE <<"A">>,
                      !.timers = IF timed THEN @ (+) SetToBag({CleanupTimer(id)}) ELSE @]
         IN [e |-> e2, ret |-> id, stole |-> stole]

\* playNote that mints the identifier before it looks the voice up
PlayNoteMintingFirst(e, timed, voiceName, dt) ==
    IF ~isInitialized THEN [e |-> e, ret |-> NoVoice, stole |-> NoVoice]
    ELSE
      LET full == Cardinality(DOMAIN e.activeVoices) >= polyphony
          e1 == IF full THEN StealVoiceOn(e) ELSE e
          stole == IF full THEN OldestId(e) ELSE NoVoice
          id == e1.nextVoiceId
      IN IF voiceName \notin voices
         THEN [e |-> [e1 EXCEPT !.nextVoiceId = id + 1], ret |-> NoVoice,
               stole |-> stole]
         ELSE
           LET t == e1.now + dt
               e2 == [e1 EXCEPT
                        !.nextVoiceId = id + 1,
                        !.now = t,
                        !.activeVoices = [v \in (DOMAIN e1.activeVoices) \cup {id} |->
                                            IF v = id THEN [startTime |-> t]
                                            ELSE e1.activeVoices[v]],
                        !.synthLog[id] = IF timed THEN <<"AR">> ELSE <<"A">>,
                        !.timers = IF timed THEN @ (+) SetToBag({CleanupTimer(id)}) ELSE @]
           IN [e |-> e2, ret |-> id, stole |-> stole]

\* playNote(note, velocity, duration, voiceName); dt is the time that passed
\* since the last reading of Tone.now().  Gives the new state, the returned
\* id and the voice the polyphony check stole.
PlayNoteOn(e, timed, voiceName, dt) ==
    IF ~isInitialized THEN [e |-> e, ret |-> NoVoice, stole |-> NoVoice]
    ELSE
      LET full == Cardinality(DOMAIN e.activeVoices) >= polyphony
          e1 == IF full THEN StealVoiceOn(e) ELSE e
          stole == IF full THEN OldestId(e) ELSE NoVoice
      IN IF voiceName \notin voices
         THEN [e |-> e1, ret |-> NoVoice, stole |-> stole]
         ELSE
           LET id == e1.nextVoiceId
               t == e1.now + dt
               e2 == [e1 EXCEPT
                        !.nextVoiceId = id + 1,
                        !.now = t,
                        !.activeVoices = [v \in (DOMAIN e1.activeVoices) \cup {id} |->
                                            IF v = id THEN [startTime |-> t]
                                            ELSE e1.activeVoices[v]],
                        !.synthLog[id] = IF timed THEN <<"AR">> ELSE <<"A">>,
                        !.timers = IF timed THEN @ (+) SetToBag({CleanupTimer(id)}) ELSE @]
           IN [e |-> e2, ret |-> id, stole |-> stole]

\* the callback destroy() schedules: dispose every voice still registered
DestroySweepOn(e) ==
    [e EXCEPT
        !.synthLog = [v \in VoiceIds |->
                        IF v \in DOMAIN e.activeVoices THEN Append(e.synthLog[v], "D")
                        ELSE e.synthLog[v]],
        !.activeVoices = <<>>]

\* --------------------------------------------------- SynthEngine actions
\* init(), up to the await of reverb.generate()
InitBegin ==
    /\ ~isInitialized
    /\ ~initPending
    /\ initPending' = TRUE
    /\ chainBuilt' = TRUE
    /\ masterOut' = "level"     \* new Tone.Volume(this.config.masterVolume)
    /\ UNCHANGED <<isInitialized, voices, polyphony, activeVoices, nextVoiceId,
                   now, timers, synthLog, isMuted, facadeVars>>

\* init(), after the await
InitComplete ==
    /\ initPending
    /\ initPending' = FALSE
    /\ isInitialized' = TRUE
    /\ UNCHANGED <<chainBuilt, voices, polyphony, activeVoices, nextVoiceId,
                   now, timers, synthLog, isMuted, masterOut, facadeVars>>

RegisterVoice(name) ==
    /\ voices' = voices \cup {name}
    /\ UNCHANGED <<isInitialized, initPending, chainBuilt, polyphony, activeVoices,
                   nextVoiceId, now, timers, synthLog, isMuted, masterOut, facadeVars>>

\* a playNote call of the host; Tone.now() has advanced since the last call
PlayNote(timed, voiceName) ==
    LET r == PlayNoteOn(Eng, timed, voiceName, 1) IN
    /\ (isInitialized /\ voiceName \in voices) => nextVoiceId < MaxVoices
    /\ WithinBounds(r.e)
    /\ SetEng(r.e)
    /\ UNCHANGED <<isInitialized, initPending, chainBuilt, voices, polyphony,
                   isMuted, masterOut, facadeVars>>

StopNote(id) ==
    LET e == StopNoteOn(Eng, id) IN
    /\ WithinBounds(e)
    /\ SetEng(e)
    /\ UNCHANGED <<isInitialized, initPending, chainBuilt, voices, polyphony,
                   isMuted, masterOut, facadeVars>>

StopAllNotes ==
    LET e == StopAllNotesOn(Eng) IN
    /\ WithinBounds(e)
    /\ SetEng(e)
    /\ UNCHANGED <<isInitialized, initPending, chainBuilt, voices, polyphony,
                   isMuted, masterOut, facadeVars>>

\* updateConfig({polyphony})
UpdateConfigPolyphony(n) ==
    /\ polyphony' = n
    /\ UNCHANGED <<isInitialized, initPending, chainBuilt, voices, activeVoices,
                   nextVoiceId, now, timers, synthLog, isMuted, masterOut, facadeVars>>

\* destroy(): stopAllNotes, then the sweep after 1000 ms
DestroyOn(e) ==
    [StopAllNotesOn(e) EXCEPT !.timers = @ (+) SetToBag({DestroyTimer})]

Destroy ==
    LET e == DestroyOn(Eng) IN
    /\ WithinBounds(e)
    /\ SetEng(e)
    /\ UNCHANGED <<isInitialized, initPending, chainBuilt, voices, polyphony,
                   isMuted, masterOut, facadeVars>>

\* a pending setTimeout callback fires
FireTimer(t) ==
    /\ BagIn(t, timers)
    /\ LET e0 == [Eng EXCEPT !.timers = @ (-) SetToBag({t})]
       IN IF t.kind = "cleanup"
          THEN /\ SetEng(CleanupVoiceOn(e0, t.id))
               /\ UNCHANGED isInitialized
          ELSE /\ SetEng(DestroySweepOn(e0))
               /\ isInitialized' = FALSE
    /\ UNCHANGED <<initPending, chainBuilt, voices, polyphony, isMuted, masterOut,
                   facadeVars>>

\* ------------------------------------------------------- the engine alone
Init ==
    /\ isInitialized = FALSE
    /\ initPending = FALSE
    /\ chainBuilt = FALSE
    /\ voices = {}
    /\ polyphony \in 1..MaxPolyphony
    /\ activeVoices = <<>>
    /\ nextVoiceId = 0
    /\ now = 0
    /\ timers = EmptyBag
    /\ synthLog = [v \in VoiceIds |-> <<>>]
    /\ isMuted = FALSE
    /\ masterOut = "level"
    /\ isEnabled = TRUE
    /\ attached = {}
    /\ activeChords = [present |-> FALSE, ids |-> <<>>]
    /\ arpActive = FALSE
    /\ lastOp = Op("new", NoVoice, NoVoice)
    /\ OthersIdle

\* The calls and callbacks of a bare engine.  Each is one disjunct of Next,
\* which also records the call in lastOp (name, argument id, returned id).
Track(name, id, ret) == lastOp' = Op(name, id, ret) /\ UNCHANGED otherVars

Next ==
    \/ InitBegin /\ Track("init", NoVoice, NoVoice)
    \/ InitComplete /\ Track("initDone", NoVoice, NoVoice)
    \/ \E name \in RegisterNames :
          RegisterVoice(name) /\ Track("registerVoice", NoVoice, NoVoice)
    \/ \E timed \in BOOLEAN, voiceName \in RequestNames :
          PlayNote(timed, voiceName)
            /\ Track("playNote", NoVoice, PlayNoteOn(Eng, timed, voiceName, 1).ret)
    \/ \E id \in VoiceIds \cup {NoVoice} : StopNote(id) /\ Track("stopNote", id, NoVoice)
    \/ StopAllNotes /\ Track("stopAllNotes", NoVoice, NoVoice)
    \/ \E n \in 1..MaxPolyphony :
          UpdateConfigPolyphony(n) /\ Track("updateConfig", NoVoice, NoVoice)
    \/ Destroy /\ Track("destroy", NoVoice, NoVoice)
    \/ \E t \in TimerUniverse : FireTimer(t) /\ Track(t.kind \o "Timer", t.id, NoVoice)

Spec == Init /\ [][Next]_vars

\* The same engine with the calls not recorded, and the event loop's
\* guarantee: a pending setTimeout callback is eventually run.
Quiet(A) == A /\ UNCHANGED <<lastOp, otherVars>>

NextQuiet ==
    \/ Quiet(InitBegin)
    \/ Quiet(InitComplete)
    \/ \E name \in RegisterNames : Quiet(RegisterVoice(name))
    \/ \E timed \in BOOLEAN, voiceName \in RequestNames : Quiet(PlayNote(timed, voiceName))
    \/ \E id \in VoiceIds \cup {NoVoice} : Quiet(StopNote(id))
    \/ Quiet(StopAllNotes)
    \/ \E n \in 1..MaxPolyphony : Quiet(UpdateConfigPolyphony(n))
    \/ Quiet(Destroy)
    \/ \E t \in TimerUniverse : Quiet(FireTimer(t))

FairSpec ==
    /\ Init
    /\ [][NextQuiet]_vars
    /\ \A t \in TimerUniverse : WF_vars(Quiet(FireTimer(t)))

\* ------------------------------------------------- SonicUX and behaviors
\* SynthEngine.mute() / unmute()
MuteOn(m) ==
    IF ~m.isMuted /\ chainBuilt THEN [isMuted |-> TRUE, masterOut |-> "silent"] ELSE m

UnmuteOn(m) ==
    IF m.isMuted /\ chainBuilt THEN [isMuted |-> FALSE, masterOut |-> "level"] ELSE m

Master == [isMuted |-> isMuted, masterOut |-> masterOut]

SetMaster(m) ==
    /\ isMuted' = m.isMuted
    /\ masterOut' = m.masterOut

\* SonicUX.mute() / unmute()
Mute ==
    /\ SetMaster(MuteOn(Master))
    /\ UNCHANGED <<isInitialized, initPending, chainBuilt, voices, polyphony,
                   activeVoices, nextVoiceId, now, timers, synthLog, facadeVars>>

Unmute ==
    /\ SetMaster(UnmuteOn(Master))
    /\ UNCHANGED <<isInitialized, initPending, chainBuilt, voices, polyphony,
                   activeVoices, nextVoiceId, now, timers, synthLog, facadeVars>>

\* SonicUX.enable() / disable()
Enable ==
    /\ isEnabled' = TRUE
    /\ SetMaster(UnmuteOn(Master))
    /\ UNCHANGED <<isInitialized, initPending, chainBuilt, voices, polyphony,
                   activeVoices, nextVoiceId, now, timers, synthLog,
                   attached, activeChords, arpActive>>

Disable ==
    /\ isEnabled' = FALSE
    /\ SetMaster(MuteOn(Master))
    /\ UNCHANGED <<isInitialized, initPending, chainBuilt, voices, polyphony,
                   activeVoices, nextVoiceId, now, timers, synthLog,
                   attached, activeChords, arpActive>>

\* SonicUX.pluck / hoverSound / chordPad / arpeggio (selector): the gate on
\* isEnabled, then the behavior's attach, on a device with a pointer (on a
\* touch-only device Tracker.attachHoverBehavior adds no listener).  A
\* behavior is attached once.
AttachBehavior(b) ==
    /\ b \notin attached
    /\ attached' = IF ~isEnabled THEN attached ELSE attached \cup {b}
    /\ UNCHANGED <<engineVars, isEnabled, activeChords, arpActive>>

\* a handler that plays one timed note through the engine
PlayTimed(voiceName) ==
    LET r == PlayNoteOn(Eng, TRUE, voiceName, 1) IN
    /\ (isInitialized /\ voiceName \in voices) => nextVoiceId < MaxVoices
    /\ WithinBounds(r.e)
    /\ SetEng(r.e)
    /\ UNCHANGED <<isInitialized, initPending, chainBuilt, voices, polyphony,
                   isMuted, masterOut, facadeVars>>

\* PluckBehavior onDown: playNote(note, velocity, 0.2, 'pluck')
PluckDown ==
    /\ "pluck" \in attached
    /\ PlayTimed("pluck")

\* HoverSoundBehavior onEnter / onLeave: playNote(note, v, 0.15 | 0.1, 'bell')
HoverSound ==
    /\ "hoverSound" \in attached
    /\ PlayTimed("bell")

\* ArpeggioBehavior onDown: a Tone.Pattern is started for the element
ArpeggioDown ==
    /\ "arpeggio" \in attached
    /\ ~arpActive
    /\ arpActive' = TRUE
    /\ UNCHANGED <<engineVars, isEnabled, attached, activeChords>>

\* the pattern's callback: playNote(note, 0.6, speed, 'bell')
ArpeggioTick ==
    /\ arpActive
    /\ PlayTimed("bell")

\* ArpeggioBehavior onUp (element or window)
ArpeggioUp ==
    /\ "arpeggio" \in attached
    /\ arpActive' = FALSE
    /\ UNCHANGED <<engineVars, isEnabled, attached, activeChords>>

\* ChordPadBehavior onEnter: the chord's notes, each a sustained playNote in
\* the same instant; the returned ids are kept for the element.
RECURSIVE PlayChordOn(_, _, _, _)
PlayChordOn(e, n, dt, ids) ==
    IF n = 0 THEN [e |-> e, ids |-> ids]
    ELSE LET r == PlayNoteOn(e, FALSE, "pad", dt)
         IN PlayChordOn(r.e, n - 1, 0, Append(ids, r.ret))

ChordPadEnter(n) ==
    LET r == PlayChordOn(Eng, n, 1, <<>>) IN
    /\ "chordPad" \in attached
    /\ ~activeChords.present
    /\ isInitialized => nextVoiceId + n <= MaxVoices
    /\ WithinBounds(r.e)
    /\ SetEng(r.e)
    /\ activeChords' = [present |-> TRUE, ids |-> r.ids]
    /\ UNCHANGED <<isInitialized, initPending, chainBuilt, voices, polyphony,
                   isMuted, masterOut, isEnabled, attached, arpActive>>

\* stopNote on each kept id, in order
RECURSIVE StopSeqOn(_, _)
StopSeqOn(e, ids) ==
    IF ids = <<>> THEN e ELSE StopSeqOn(StopNoteOn(e, Head(ids)), Tail(ids))

\* ChordPadBehavior onLeave
ChordPadLeave ==
    LET e == StopSeqOn(Eng, activeChords.ids) IN
    /\ "chordPad" \in attached
    /\ activeChords.present
    /\ WithinBounds(e)
    /\ SetEng(e)
    /\ activeChords' = [present |-> FALSE, ids |-> <<>>]
    /\ UNCHANGED <<isInitialized, initPending, chainBuilt, voices, polyphony,
                   isMuted, masterOut, isEnabled, attached, arpActive>>

\* SonicUX.destroy(): every behavior's cleanup (the chord pad stops its
\* chords, the patterns are stopped, the listeners removed), then the
\* engine's destroy
SonicDestroy ==
    LET e == DestroyOn(StopSeqOn(Eng, activeChords.ids)) IN
    /\ WithinBounds(e)
    /\ SetEng(e)
    /\ activeChords' = [present |-> FALSE, ids |-> <<>>]
    /\ arpActive' = FALSE
    /\ attached' = {}
    /\ UNCHANGED <<isInitialized, initPending, chainBuilt, voices, polyphony,
                   isMuted, masterOut, isEnabled>>

\* the state SonicUX.create() returns: engine initialized, voices.ts registered
InitFacade ==
    /\ isInitialized = TRUE
    /\ initPending = FALSE
    /\ chainBuilt = TRUE
    /\ voices = KnownVoices
    /\ polyphony \in 1..MaxPolyphony
    /\ activeVoices = <<>>
    /\ nextVoiceId = 0
    /\ now = 0
    /\ timers = EmptyBag
    /\ synthLog = [v \in VoiceIds |-> <<>>]
    /\ isMuted = FALSE
    /\ masterOut = "level"
    /\ isEnabled = TRUE
    /\ attached = {}
    /\ activeChords = [present |-> FALSE, ids |-> <<>>]
    /\ arpActive = FALSE
    /\ lastOp = Op("create", NoVoice, NoVoice)
    /\ OthersIdle

\* what a host holding a SonicUX instance, the DOM and the event loop can do
NextFacade ==
    \/ \E b \in BehaviorNames : Quiet(AttachBehavior(b))
    \/ Quiet(PluckDown)
    \/ Quiet(HoverSound)
    \/ \E n \in 1..MaxChord : Quiet(ChordPadEnter(n))
    \/ Quiet(ChordPadLeave)
    \/ Quiet(ArpeggioDown)
    \/ Quiet(ArpeggioTick)
    \/ Quiet(ArpeggioUp)
    \/ Quiet(Enable)
    \/ Quiet(Disable)
    \/ Quiet(Mute)
    \/ Quiet(Unmute)
    \/ Quiet(SonicDestroy)
    \/ \E t \in TimerUniverse : Quiet(FireTimer(t))

SpecFacade == InitFacade /\ [][NextFacade]_vars

\* ---------------------------------------------------------- HarmonyManager
\* Pitches are MIDI numbers.  A JavaScript NaN (arithmetic on the undefined
\* read of an out-of-range array index) is modelled by the value NaN.
NaN == -100000
MIDDLE_C == 60

NOTE_MAP ==
    "C" :> 0 @@ "C#" :> 1 @@ "Db" :> 1 @@ "D" :> 2 @@ "D#" :> 3 @@ "Eb" :> 3
    @@ "E" :> 4 @@ "F" :> 5 @@ "F#" :> 6 @@ "Gb" :> 6 @@ "G" :> 7 @@ "G#" :> 8
    @@ "Ab" :> 8 @@ "A" :> 9 @@ "A#" :> 10 @@ "Bb" :> 10 @@ "B" :> 11

MODES ==
    [major            |-> <<0, 2, 4, 5, 7, 9, 11>>,
     lydian           |-> <<0, 2, 4, 6, 7, 9, 11>>,
     mixolydian       |-> <<0, 2, 4, 5, 7, 9, 10>>,
     minor            |-> <<0, 2, 3, 5, 7, 8, 10>>,
     dorian           |-> <<0, 2, 3, 5, 7, 9, 10>>,
     phrygian         |-> <<0, 1, 3, 5, 7, 8, 10>>,
     pentatonic_major |-> <<0, 2, 4, 7, 9>>,
     pentatonic_minor |-> <<0, 3, 5, 7, 10>>]

\* the scale degree of each Roman numeral (the chord type does not change
\* the notes buildChord returns)
ROMAN_TO_DEGREE ==
    "I" :> 0 @@ "II" :> 1 @@ "III" :> 2 @@ "IV" :> 3 @@ "V" :> 4 @@ "VI" :> 5
    @@ "VII" :> 6 @@ "i" :> 0 @@ "ii" :> 1 @@ "iii" :> 2 @@ "iv" :> 3
    @@ "v" :> 4 @@ "vi" :> 5 @@ "vii" :> 6 @@ "viidim" :> 6 @@ "viio" :> 6

\* a note-name lookup without the ?? 0 default
NoteOfStrict(key) == IF key \in DOMAIN NOTE_MAP THEN NOTE_MAP[key] ELSE NaN

\* NOTE_MAP[key] ?? 0 and MODES[mode] ?? MODES.major
NoteOf(key) == IF key \in DOMAIN NOTE_MAP THEN NOTE_MAP[key] ELSE 0
ModeOf(mode) == IF mode \in DOMAIN MODES THEN MODES[mode] ELSE MODES.major

\* JavaScript's %: the remainder takes the sign of the dividend
JsRem(a, b) == IF a >= 0 THEN a % b ELSE 0 - ((0 - a) % b)

\* getScaleNote reads this.state.scale first: a TypeError while this.state is
\* undefined
GetScaleNoteThrows(s) == ~s.defined

\* getScaleNote taking the degree as a count of semitones
GetScaleNoteChromatic(s, root, degree, octave) ==
    MIDDLE_C + (octave - 4) * 12 + root + degree

GetScaleNoteOn(s, root, degree, octave) ==
    LET scaleLength == Len(s.scale)
        octaveOffset == degree \div scaleLength
        scaleDegree == JsRem(degree, scaleLength)
        baseNote == MIDDLE_C + (octave - 4) * 12
    IN  IF scaleDegree + 1 \in DOMAIN s.scale
        THEN baseNote + (root + s.scale[scaleDegree + 1]) + octaveOffset * 12
        ELSE NaN

QuantizeToScaleOn(s, root, note) ==
    LET octave == (note \div 12) - 1
        semitone == JsRem(note, 12)
        keyOffset == JsRem(semitone - root + 12, 12)
        Abs(x) == IF x < 0 THEN 0 - x ELSE x
        minDiff == CHOOSE d \in 0..24 :
                      /\ \E i \in DOMAIN s.scale : Abs(keyOffset - s.scale[i]) = d
                      /\ \A i \in DOMAIN s.scale : Abs(keyOffset - s.scale[i]) >= d
        first == CHOOSE i \in DOMAIN s.scale :
                      /\ Abs(keyOffset - s.scale[i]) = minDiff
                      /\ \A j \in 1..(i - 1) : Abs(keyOffset - s.scale[j]) # minDiff
    IN  octave * 12 + 12 + root + s.scale[first]

BuildChordThrows(s, roman) == GetScaleNoteThrows(s)

\* buildChord where a lower-case (minor) label stacks fixed semitones
BuildChordByQuality(s, root, roman, octave) ==
    LET degree == IF roman \in DOMAIN ROMAN_TO_DEGREE
                  THEN ROMAN_TO_DEGREE[roman] ELSE ROMAN_TO_DEGREE["I"]
        base == GetScaleNoteOn(s, root, degree, octave)
    IN  IF roman \in {"i", "ii", "iii", "iv", "v", "vi", "vii"}
        THEN <<base, base + 3, base + 7>>
        ELSE <<base,
               GetScaleNoteOn(s, root, degree + 2, octave),
               GetScaleNoteOn(s, root, degree + 4, octave)>>

BuildChordOn(s, root, roman, octave) ==
    LET degree == IF roman \in DOMAIN ROMAN_TO_DEGREE
                  THEN ROMAN_TO_DEGREE[roman] ELSE ROMAN_TO_DEGREE["I"]
    IN  <<GetScaleNoteOn(s, root, degree, octave),
          GetScaleNoteOn(s, root, degree + 2, octave),
          GetScaleNoteOn(s, root, degree + 4, octave)>>

\* Object.entries(NOTE_MAP): the names in the order the literal lists them
NOTE_NAMES ==
    <<"C", "C#", "Db", "D", "D#", "Eb", "E", "F", "F#", "Gb", "G", "G#", "Ab",
      "A", "A#", "Bb", "B">>

\* the names for which name.includes('#') or name.includes('b') holds
AccidentalNames == {"C#", "Db", "D#", "Eb", "F#", "Gb", "G#", "Ab", "A#", "Bb"}

\* the entries of NOTE_MAP whose value is root, as positions in NOTE_NAMES
EntriesFor(root) == {i \in 1..Len(NOTE_NAMES) : NOTE_MAP[NOTE_NAMES[i]] = root}

\* updateKeyName taking the last name of the pitch class in NOTE_MAP
KeyNameOfLast(root, key) ==
    IF EntriesFor(root) = {} THEN key
    ELSE NOTE_NAMES[CHOOSE i \in EntriesFor(root) : \A j \in EntriesFor(root) : j <= i]

\* updateKeyName: the first entry for the root with no '#' and no 'b' in its
\* name, else the first entry for the root; this.state.key stays when no
\* entry has the root as its value
KeyNameOf(root, key) ==
    LET naturals == {i \in EntriesFor(root) : NOTE_NAMES[i] \notin AccidentalNames}
        First(S) == CHOOSE i \in S : \A j \in S : i <= j
    IN  IF naturals # {} THEN NOTE_NAMES[First(naturals)]
        ELSE IF EntriesFor(root) # {} THEN NOTE_NAMES[First(EntriesFor(root))]
        ELSE key

\* ------------------------------------------------- HarmonyManager: inputs
KeyArgs == {"C", "G", "F", "H"}
ModeArgs == {"major", "minor", "pentatonic_minor", "ionian"}
RomanArgs == {"I", "V", "vi", "N"}
OctaveArgs == {3, 4}
ScaleArgs == {<<0, 2, 4, 6, 8, 10>>}
ChordArgs == {<<61, 66>>}
ModulationArgs == {"relative", "dominant", "subdominant"}

\* ------------------------------------------------ HarmonyManager: methods
\* new HarmonyManager(key, mode): the object literal assigned to this.state
\* is evaluated, buildChord('I', 4) included, before this.state is assigned.
HarmonyNew(key, mode) ==
    /\ ~state.defined /\ ~raised
    /\ rootNote' = NoteOf(key)
    /\ IF BuildChordThrows(state, "I")
       THEN /\ raised' = TRUE
            /\ UNCHANGED state
       ELSE /\ state' = [defined |-> TRUE, key |-> key, mode |-> mode,
                         scale |-> ModeOf(mode),
                         chord |-> BuildChordOn(state, NoteOf(key), "I", 4),
                         isLocked |-> FALSE]
            /\ UNCHANGED raised
    /\ UNCHANGED <<everLocked, chordExplicit, fnOut, chordPool, chordSetLocked>>

SetKeyIgnoringLock(s, key, mode) ==
    LET t == [s EXCEPT !.key = key, !.mode = mode, !.scale = ModeOf(mode)]
    IN  [t EXCEPT !.chord = BuildChordOn(t, NoteOf(key), "I", 4)]

\* setKey that also returns harmony to auto mode
SetKeyUnlocking(s, key, mode) ==
    LET t == [s EXCEPT !.key = key, !.mode = mode, !.scale = ModeOf(mode),
                       !.isLocked = FALSE]
    IN  [t EXCEPT !.chord = BuildChordOn(t, NoteOf(key), "I", 4)]

SetKeyOn(s, key, mode) ==
    LET t == [s EXCEPT !.key = key, !.mode = mode, !.scale = ModeOf(mode)]
    IN  IF ~t.isLocked
        THEN [t EXCEPT !.chord = BuildChordOn(t, NoteOf(key), "I", 4)]
        ELSE t

SetKey(key, mode) ==
    /\ state.defined
    /\ rootNote' = NoteOf(key)
    /\ state' = SetKeyOn(state, key, mode)
    /\ fnOut' = NoQuery
    /\ UNCHANGED <<raised, everLocked, chordExplicit, chordPool, chordSetLocked>>

SetScale(intervals) ==
    /\ state.defined
    /\ state' = [state EXCEPT !.scale = intervals, !.mode = "custom"]
    /\ fnOut' = NoQuery
    /\ UNCHANGED <<rootNote, raised, everLocked, chordExplicit, chordPool, chordSetLocked>>

\* setChord that respects the lock
SetChordIfUnlocked(s, notes) ==
    IF s.isLocked THEN s ELSE [s EXCEPT !.chord = notes]

SetChordOn(s, notes) == [s EXCEPT !.chord = notes]

SetChord(notes) ==
    /\ state.defined
    /\ state' = SetChordOn(state, notes)
    /\ chordExplicit' = TRUE
    /\ chordSetLocked' = (chordSetLocked \/ state.isLocked)
    /\ fnOut' = NoQuery
    /\ UNCHANGED <<rootNote, raised, everLocked, chordPool>>

SetChordFromRoman(roman, octave) ==
    /\ state.defined
    /\ state' = IF ~state.isLocked
                THEN [state EXCEPT !.chord = BuildChordOn(state, rootNote, roman, octave)]
                ELSE state
    /\ fnOut' = NoQuery
    /\ UNCHANGED <<rootNote, raised, everLocked, chordExplicit, chordPool, chordSetLocked>>

LockHarmony ==
    /\ state.defined
    /\ state' = [state EXCEPT !.isLocked = TRUE]
    /\ everLocked' = TRUE
    /\ fnOut' = NoQuery
    /\ UNCHANGED <<rootNote, raised, chordExplicit, chordPool, chordSetLocked>>

UnlockHarmony ==
    /\ state.defined
    /\ state' = [state EXCEPT !.isLocked = FALSE]
    /\ fnOut' = NoQuery
    /\ UNCHANGED <<rootNote, raised, everLocked, chordExplicit, chordPool, chordSetLocked>>

\* modulation where the subdominant is taken a major third up
ModulateRootThird(s, root, type) ==
    CASE type = "relative" ->
             IF s.mode = "major" THEN (root + 9) % 12
             ELSE IF s.mode = "minor" THEN (root + 3) % 12
             ELSE root
      [] type = "dominant" -> (root + 7) % 12
      [] type = "subdominant" -> (root + 4) % 12

\* modulateRelative / modulateDominant / modulateSubdominant, then
\* updateKeyName; none of them touches state.chord
ModulateRoot(s, root, type) ==
    CASE type = "relative" ->
             IF s.mode = "major" THEN (root + 9) % 12
             ELSE IF s.mode = "minor" THEN (root + 3) % 12
             ELSE root
      [] type = "dominant" -> (root + 7) % 12
      [] type = "subdominant" -> (root + 5) % 12

\* relative modulation that renames the mode but keeps the interval table
ModulateOnKeepScale(s, root, type) ==
    LET r == ModulateRoot(s, root, type)
        t == IF type = "relative" /\ s.mode = "major"
             THEN [s EXCEPT !.mode = "minor"]
             ELSE IF type = "relative" /\ s.mode = "minor"
             THEN [s EXCEPT !.mode = "major"]
             ELSE s
    IN  [t EXCEPT !.key = KeyNameOf(r, s.key)]

ModulateOn(s, root, type) ==
    LET r == ModulateRoot(s, root, type)
        t == IF type = "relative" /\ s.mode = "major"
             THEN [s EXCEPT !.mode = "minor", !.scale = MODES.minor]
             ELSE IF type = "relative" /\ s.mode = "minor"
             THEN [s EXCEPT !.mode = "major", !.scale = MODES.major]
             ELSE s
    IN  [t EXCEPT !.key = KeyNameOf(r, s.key)]

Modulate(type) ==
    /\ state.defined
    /\ rootNote' = ModulateRoot(state, rootNote, type)
    /\ state' = ModulateOn(state, rootNote, type)
    /\ fnOut' = NoQuery
    /\ UNCHANGED <<raised, everLocked, chordExplicit, chordPool, chordSetLocked>>

PoolArgs == {<<"I", "V">>}

SetChordPool(chords) ==
    /\ state.defined
    /\ chordPool' = chords
    /\ fnOut' = NoQuery
    /\ UNCHANGED <<rootNote, state, raised, everLocked, chordExplicit,
                   chordSetLocked>>

\* ------------------------------------------ HarmonyManager: pure queries
MinDegree == -2
DegreeArgs == MinDegree..MaxDegree
QueryOctaves == {3, 4, 5}

GetScaleNote(degree, octave) ==
    /\ state.defined
    /\ fnOut' = [fn |-> "getScaleNote", arg |-> <<degree, octave>>,
                 result |-> <<GetScaleNoteOn(state, rootNote, degree, octave)>>]
    /\ UNCHANGED <<rootNote, state, raised, everLocked, chordExplicit, chordPool,
                   chordSetLocked>>

\* getChord('I', 4), then quantizeToScale on each of its notes
QuantizeTonicChord ==
    /\ state.defined
    /\ LET chord == BuildChordOn(state, rootNote, "I", 4)
       IN  fnOut' = [fn |-> "quantizeChord", arg |-> chord,
                     result |-> [i \in 1..3 |->
                                    QuantizeToScaleOn(state, rootNote, chord[i])]]
    /\ UNCHANGED <<rootNote, state, raised, everLocked, chordExplicit, chordPool,
                   chordSetLocked>>

\* getChord that stores what it built as the active chord
GetChordStoring(s, root, roman, octave) ==
    [s EXCEPT !.chord = BuildChordOn(s, root, roman, octave)]

\* the HarmonyState after getChord(roman, octave): buildChord assigns nothing
GetChordStateOn(s, root, roman, octave) == s

AllLabels == DOMAIN ROMAN_TO_DEGREE \cup {"N"}

GetChord(roman, octave) ==
    /\ state.defined
    /\ fnOut' = [fn |-> "getChord", arg |-> <<roman, octave>>,
                 result |-> BuildChordOn(state, rootNote, roman, octave)]
    /\ state' = GetChordStateOn(state, rootNote, roman, octave)
    /\ UNCHANGED <<rootNote, raised, everLocked, chordExplicit, chordPool,
                   chordSetLocked>>

PitchArgs == 0..MaxPitch

QuantizeToScale(note) ==
    /\ state.defined
    /\ fnOut' = [fn |-> "quantizeToScale", arg |-> <<note>>,
                 result |-> <<QuantizeToScaleOn(state, rootNote, note)>>]
    /\ UNCHANGED <<rootNote, state, raised, everLocked, chordExplicit, chordPool,
                   chordSetLocked>>

\* ---------------------------------------------- HarmonyManager: the specs
EngineIdle ==
    /\ isInitialized = FALSE
    /\ initPending = FALSE
    /\ chainBuilt = FALSE
    /\ voices = {}
    /\ polyphony = 1
    /\ activeVoices = <<>>
    /\ nextVoiceId = 0
    /\ now = 0
    /\ timers = EmptyBag
    /\ synthLog = [v \in VoiceIds |-> <<>>]
    /\ isMuted = FALSE
    /\ masterOut = "level"
    /\ isEnabled = TRUE
    /\ attached = {}
    /\ activeChords = [present |-> FALSE, ids |-> <<>>]
    /\ arpActive = FALSE
    /\ lastOp = Op("new", NoVoice, NoVoice)

HarmonyOnly(A) ==
    A /\ UNCHANGED <<engineVars, facadeVars, lastOp, navVars, contVars, trailVars, droneVars,
                   gainVars>>

\* Construction.  The arguments of the pending new HarmonyManager(key, mode)
\* are carried in fnOut.
AllKeys == DOMAIN NOTE_MAP \cup {"H"}
AllModes == DOMAIN MODES \cup {"ionian"}

InitHarmonyNew ==
    /\ EngineIdle
    /\ NavIdle /\ ContIdle /\ TrailIdle /\ DroneIdle /\ GainIdle
    /\ chordPool = DefaultChordPool /\ chordSetLocked = FALSE
    /\ rootNote = 0
    /\ state = UndefinedState
    /\ raised = FALSE
    /\ everLocked = FALSE
    /\ chordExplicit = FALSE
    /\ \E key \in AllKeys, mode \in AllModes :
          fnOut = [fn |-> "new", arg |-> <<key, mode>>, result |-> <<>>]

NextHarmonyNew ==
    \E key \in AllKeys, mode \in AllModes :
        /\ fnOut.arg = <<key, mode>>
        /\ HarmonyOnly(HarmonyNew(key, mode))

SpecHarmonyNew == InitHarmonyNew /\ [][NextHarmonyNew]_vars

\* The HarmonyState the constructor's object literal describes for (key,
\* mode): the mode's intervals, its tonic triad at octave 4, unlocked.
ConstructedState(key, mode) ==
    LET t == [defined |-> TRUE, key |-> key, mode |-> mode,
              scale |-> ModeOf(mode), chord |-> <<>>, isLocked |-> FALSE]
    IN  [t EXCEPT !.chord = BuildChordOn(t, NoteOf(key), "I", 4)]

InitHarmony ==
    /\ EngineIdle
    /\ NavIdle /\ ContIdle /\ TrailIdle /\ DroneIdle /\ GainIdle
    /\ chordPool = DefaultChordPool /\ chordSetLocked = FALSE
    /\ \E key \in KeyArgs, mode \in ModeArgs :
          /\ rootNote = NoteOf(key)
          /\ state = ConstructedState(key, mode)
    /\ raised = FALSE
    /\ everLocked = FALSE
    /\ chordExplicit = FALSE
    /\ fnOut = NoQuery

NextHarmony ==
    \/ \E key \in KeyArgs, mode \in ModeArgs : HarmonyOnly(SetKey(key, mode))
    \/ \E intervals \in ScaleArgs : HarmonyOnly(SetScale(intervals))
    \/ \E notes \in ChordArgs : HarmonyOnly(SetChord(notes))
    \/ \E roman \in RomanArgs, octave \in OctaveArgs :
          HarmonyOnly(SetChordFromRoman(roman, octave))
    \/ HarmonyOnly(LockHarmony)
    \/ HarmonyOnly(UnlockHarmony)
    \/ \E type \in ModulationArgs : HarmonyOnly(Modulate(type))
    \/ \E chords \in PoolArgs : HarmonyOnly(SetChordPool(chords))

SpecHarmony == InitHarmony /\ [][NextHarmony]_vars

\* the pure queries, over every key and every built-in mode
InitHarmonyPure ==
    /\ EngineIdle
    /\ NavIdle /\ ContIdle /\ TrailIdle /\ DroneIdle /\ GainIdle
    /\ chordPool = DefaultChordPool /\ chordSetLocked = FALSE
    /\ \E key \in DOMAIN NOTE_MAP, mode \in DOMAIN MODES :
          /\ rootNote = NoteOf(key)
          /\ state = ConstructedState(key, mode)
    /\ raised = FALSE
    /\ everLocked = FALSE
    /\ chordExplicit = FALSE
    /\ fnOut = NoQuery

NextHarmonyPure ==
    \/ \E degree \in DegreeArgs, octave \in QueryOctaves :
          HarmonyOnly(GetScaleNote(degree, octave))
    \/ HarmonyOnly(QuantizeTonicChord)
    \/ \E note \in PitchArgs : HarmonyOnly(QuantizeToScale(note))

SpecHarmonyPure == InitHarmonyPure /\ [][NextHarmonyPure]_vars


\* ------------------------------------------------------------- the claims
Active == DOMAIN activeVoices
Released(log) == \E i \in 1..Len(log) : log[i] \in {"R", "AR"}
Disposals(id) == Count(synthLog[id], "D")
\* every release call on a voice schedules one cleanup callback for it
CleanupsFired(id) ==
    Count(synthLog[id], "R") + Count(synthLog[id], "AR")
        - CopiesIn(CleanupTimer(id), timers)

\* a backend log in lifecycle order: attack first, a release before the
\* dispose, nothing after the dispose
LogOrdered(log) ==
    /\ (log # <<>> => log[1] \in {"A", "AR"})
    /\ \A i \in 1..Len(log) :
          log[i] = "D" => /\ Released(SubSeq(log, 1, i - 1))
                          /\ i = Len(log)

\* C1: after any playNote call the registry holds at most polyphony voices.
PolyphonyCeilingAfterPlay ==
    lastOp.op = "playNote" => Cardinality(Active) <= polyphony

\* C2: with ceiling 2 and two sustained voices A, B in the registry, a
\* playNote for C removes the oldest voice before it records the new one:
\* the registry it leaves is {B, C}.
StealBeforeAllocate ==
    [][(lastOp'.op = "playNote" /\ lastOp'.ret # NoVoice
          /\ polyphony = 2 /\ Cardinality(Active) = 2
          /\ \A v \in Active : synthLog[v] = <<"A">>)
        => DOMAIN activeVoices' = (Active \ {OldestId(Eng)}) \cup {lastOp'.ret}]_vars

\* C3: every voice allocated by playNote with a duration is eventually
\* disposed and out of the registry, by the timers alone.
TimedNotesDisposed ==
    \A id \in VoiceIds :
        (id \in Active /\ synthLog[id][1] = "AR")
            ~> (id \notin Active /\ Disposals(id) = 1)

\* C3 witness: a timed voice, stolen meanwhile, has been disposed by a
\* cleanup callback while the engine stayed initialized.
TimedVoiceDisposedByTimer ==
    \E id \in VoiceIds :
        /\ synthLog[id] = <<"AR", "R", "D">>
        /\ CleanupsFired(id) >= 1
        /\ isInitialized
        /\ ~BagIn(DestroyTimer, timers)

\* C4: the backend instance of a voice is disposed at most once.
DisposedAtMostOnce ==
    \A id \in VoiceIds : Disposals(id) <= 1

\* C4 witness: a second cleanup callback has fired for a voice that the
\* first one had disposed and removed.
StaleCleanupFired ==
    /\ lastOp.op = "cleanupTimer"
    /\ lastOp.id \in VoiceIds
    /\ lastOp.id \notin Active
    /\ Disposals(lastOp.id) = 1
    /\ CleanupsFired(lastOp.id) >= 2

\* C5: per voice, the attack comes first, a release precedes the disposal,
\* and nothing is issued after the disposal.
AttackReleaseDispose ==
    \A id \in VoiceIds : LogOrdered(synthLog[id])

\* C6: on an initialized engine, playNote with an unregistered voice kind
\* returns the sentinel and leaves registry, ids, timers and voices alone.
UnregisteredPlayIsNoOp ==
    [][(isInitialized /\ \E timed \in BOOLEAN : PlayNote(timed, "unregistered"))
        => (lastOp'.ret = NoVoice
            /\ UNCHANGED <<activeVoices, nextVoiceId, timers, synthLog>>)]_vars

\* C7: a second stopNote on the same active voice, right after the first,
\* issues no further backend call and schedules nothing.
StopNoteIdempotent ==
    [][(lastOp.op = "stopNote" /\ lastOp'.op = "stopNote"
          /\ lastOp'.id = lastOp.id /\ lastOp.id \in Active)
        => UNCHANGED <<activeVoices, timers, synthLog>>]_vars

\* C8: stopNote on an id that is not in the registry makes no backend call,
\* schedules no timer and leaves the registry unchanged.
StopUnknownIsNoOp ==
    [][(lastOp'.op = "stopNote" /\ lastOp'.id \notin Active)
        => UNCHANGED <<activeVoices, nextVoiceId, timers, synthLog>>]_vars

\* C8 witness: stopNote was called on the id of a disposed voice.
StopOnDisposedId ==
    /\ lastOp.op = "stopNote"
    /\ lastOp.id \in VoiceIds
    /\ lastOp.id \notin Active
    /\ Disposals(lastOp.id) = 1

\* C9: while the facade is disabled no step adds a voice to the registry.
NoAllocationWhileDisabled ==
    [][~isEnabled => DOMAIN activeVoices' \subseteq Active]_vars

\* C10: disable() releases every voice that is active when it is called.
DisableReleasesAll ==
    [][Disable => \A id \in Active : Released(synthLog'[id])]_vars


\* ------------------------------------------- the claims on HarmonyManager
TonicTriad == BuildChordOn(state, rootNote, "I", 4)

Reconstructible ==
    \E roman \in DOMAIN ROMAN_TO_DEGREE, octave \in 0..8 :
        state.chord = BuildChordOn(state, rootNote, roman, octave)

\* C15: while harmony is locked, setKey (which still installs the new mode's
\* scale) and setChordFromRoman leave the active chord unchanged.
LockedChordUnchanged ==
    [][state.isLocked =>
          /\ \A key \in KeyArgs, mode \in ModeArgs :
                SetKey(key, mode) =>
                   (state'.chord = state.chord /\ state'.scale = ModeOf(mode))
          /\ \A roman \in RomanArgs, octave \in OctaveArgs :
                SetChordFromRoman(roman, octave) => state'.chord = state.chord]_vars

\* C15 witness: a locked manager moved to the minor pentatonic by setKey still
\* holds the C major triad (only a setKey made under the lock leaves a triad
\* of another mode in place).
LockedSetKeyKeptChord ==
    /\ state.defined /\ state.isLocked /\ ~chordExplicit
    /\ state.mode = "pentatonic_minor"
    /\ state.scale = MODES.pentatonic_minor
    /\ state.chord = <<60, 64, 67>>

\* C16: while unlocked, after setKey or any modulate the active chord is the
\* tonic triad getChord('I', 4) of the new key.
UnlockedChordFollowsKey ==
    [][(/\ state.defined /\ ~state.isLocked
        /\ \/ \E key \in KeyArgs, mode \in ModeArgs : SetKey(key, mode)
           \/ \E type \in ModulationArgs : Modulate(type))
       => state'.chord = BuildChordOn(state', rootNote', "I", 4)]_vars

\* C17: while harmony has never been locked (and no chord was set by hand),
\* the active chord equals getChord(label, octave) of the current root and
\* scale for some chord label and octave.
NeverLockedChordReconstructible ==
    (state.defined /\ ~everLocked /\ ~chordExplicit) => Reconstructible

\* C18: new HarmonyManager(key, mode) does not raise and yields an unlocked
\* state whose scale is the mode's intervals and whose chord is the tonic
\* triad at octave 4.
ConstructorYieldsTonic ==
    [][\A key \in AllKeys, mode \in AllModes :
          HarmonyNew(key, mode) =>
             /\ ~raised'
             /\ state'.defined /\ ~state'.isLocked
             /\ state'.scale = ModeOf(mode)
             /\ state'.chord = BuildChordOn(state', NoteOf(key), "I", 4)]_vars

\* C19: getScaleNote(degree, octave) = 60 + 12*(octave-4) + root
\* + scale[degree mod L] + 12*floor(degree / L), with the floored remainder,
\* for every integer degree.
GetScaleNoteWraps ==
    fnOut.fn = "getScaleNote" =>
       LET degree == fnOut.arg[1]
           octave == fnOut.arg[2]
           L == Len(state.scale)
       IN  fnOut.result[1] = 60 + 12 * (octave - 4) + rootNote
                               + state.scale[(degree % L) + 1]
                               + 12 * (degree \div L)

\* C20: every note n of getChord('I', 4) satisfies quantizeToScale(n) = n,
\* for every key and every built-in mode.
TonicChordQuantizesToItself ==
    fnOut.fn = "quantizeChord" =>
       \A i \in 1..3 : fnOut.result[i] = fnOut.arg[i]


\* ------------------------------------- navigation chords (basic-usage/main.js)
\* Two PolySynths (buffers 0 = A, 1 = B) crossfade.  Time advances in ticks
\* of 75 ms: NAV_FADE_SEC = 0.15 s is 2 ticks, NAV_HOLD_SEC = 1.2 s is 16.
\* A pending setTimeout callback is a record of navTimers: its handle id, what
\* it does (kind), the buffer and chord its closure captured, and the ticks
\* left before it is due.  A chord carries the number (gen) of the trigger
\* that played it.
NavFadeTicks == 2
NavHoldTicks == 16
NavSinceCap == NavHoldTicks + NavFadeTicks + 1
NavChordArgs == {{"C4", "E4"}, {"C4", "G4"}}

Nav == [activeNavIndex |-> activeNavIndex, navNotes |-> navNotes,
        navReleaseTimeouts |-> navReleaseTimeouts,
        navHoldTimeouts |-> navHoldTimeouts, navTimers |-> navTimers,
        navSounding |-> navSounding, navNextTimer |-> navNextTimer,
        navGen |-> navGen, navCancelled |-> navCancelled]

SetNav(n) ==
    /\ activeNavIndex' = n.activeNavIndex
    /\ navNotes' = n.navNotes
    /\ navReleaseTimeouts' = n.navReleaseTimeouts
    /\ navHoldTimeouts' = n.navHoldTimeouts
    /\ navTimers' = n.navTimers
    /\ navSounding' = n.navSounding
    /\ navNextTimer' = n.navNextTimer
    /\ navGen' = n.navGen
    /\ navCancelled' = n.navCancelled

NavTimer(id, kind, buf, chord, left) ==
    [id |-> id, kind |-> kind, buf |-> buf, chord |-> chord, left |-> left]

\* clearTimeout on each of the handles
ClearTimeouts(pending, handles) == {t \in pending : t.id \notin handles}

\* playNavChord where the timers of the buffer being triggered are left pending
PlayNavChordKeepTimers(n, notes) ==
    LET nextIndex == IF n.activeNavIndex = 0 THEN 1 ELSE 0
        prevIndex == n.activeNavIndex
        prevNotes == n.navNotes[prevIndex]
        chord == [notes |-> notes, gen |-> n.navGen + 1]
        snd1 == [n.navSounding EXCEPT ![nextIndex] = notes]
        hasPrev == prevNotes # NoChord
        relId == n.navNextTimer
        holdId == IF hasPrev THEN relId + 1 ELSE relId
        t2 == IF hasPrev
              THEN ClearTimeouts(n.navTimers, {n.navReleaseTimeouts[prevIndex],
                                               n.navHoldTimeouts[prevIndex]})
                     \cup {NavTimer(relId, "release", prevIndex, prevNotes, NavFadeTicks)}
              ELSE n.navTimers
        rel2 == IF hasPrev THEN [n.navReleaseTimeouts EXCEPT ![prevIndex] = relId]
                ELSE n.navReleaseTimeouts
        hold2 == IF hasPrev THEN [n.navHoldTimeouts EXCEPT ![prevIndex] = NoTimer]
                 ELSE n.navHoldTimeouts
    IN  [n EXCEPT !.navTimers = t2 \cup {NavTimer(holdId, "hold", nextIndex, chord, NavHoldTicks)},
                  !.navReleaseTimeouts = rel2,
                  !.navHoldTimeouts = [hold2 EXCEPT ![nextIndex] = holdId],
                  !.navSounding = snd1,
                  !.navNotes = [n.navNotes EXCEPT ![nextIndex] = chord],
                  !.activeNavIndex = nextIndex,
                  !.navNextTimer = holdId + 1,
                  !.navGen = n.navGen + 1]

\* playNavChord where no release of the previous buffer is scheduled
PlayNavChordNoCrossfade(n, notes) ==
    LET nextIndex == IF n.activeNavIndex = 0 THEN 1 ELSE 0
        chord == [notes |-> notes, gen |-> n.navGen + 1]
        cleared == {n.navReleaseTimeouts[nextIndex], n.navHoldTimeouts[nextIndex]}
        holdId == n.navNextTimer
    IN  [n EXCEPT !.navTimers = ClearTimeouts(n.navTimers, cleared)
                       \cup {NavTimer(holdId, "hold", nextIndex, chord, NavHoldTicks)},
                  !.navReleaseTimeouts = [n.navReleaseTimeouts EXCEPT ![nextIndex] = NoTimer],
                  !.navHoldTimeouts = [n.navHoldTimeouts EXCEPT ![nextIndex] = holdId],
                  !.navSounding = [n.navSounding EXCEPT ![nextIndex] = notes],
                  !.navNotes = [n.navNotes EXCEPT ![nextIndex] = chord],
                  !.activeNavIndex = nextIndex,
                  !.navNextTimer = holdId + 1,
                  !.navGen = n.navGen + 1,
                  !.navCancelled = n.navCancelled
                       \/ \E t \in n.navTimers : t.id \in cleared]

\* playNavChord(notes, velocity), past its guard on navSynthA / navSynthB
PlayNavChordOn(n, notes) ==
    LET nextIndex == IF n.activeNavIndex = 0 THEN 1 ELSE 0
        prevIndex == n.activeNavIndex
        prevNotes == n.navNotes[prevIndex]
        chord == [notes |-> notes, gen |-> n.navGen + 1]
        \* clear the triggered buffer's release and hold timers
        cleared == {n.navReleaseTimeouts[nextIndex], n.navHoldTimeouts[nextIndex]}
        t1 == ClearTimeouts(n.navTimers, cleared)
        rel1 == [n.navReleaseTimeouts EXCEPT ![nextIndex] = NoTimer]
        hold1 == [n.navHoldTimeouts EXCEPT ![nextIndex] = NoTimer]
        \* nextSynth.releaseAll(), then triggerAttack(notes)
        snd1 == [n.navSounding EXCEPT ![nextIndex] = notes]
        \* fade the previous buffer out and schedule its release
        hasPrev == prevNotes # NoChord
        relId == n.navNextTimer
        holdId == IF hasPrev THEN relId + 1 ELSE relId
        t2 == IF hasPrev
              THEN ClearTimeouts(t1, {rel1[prevIndex], hold1[prevIndex]})
                     \cup {NavTimer(relId, "release", prevIndex, prevNotes, NavFadeTicks)}
              ELSE t1
        rel2 == IF hasPrev THEN [rel1 EXCEPT ![prevIndex] = relId] ELSE rel1
        hold2 == IF hasPrev THEN [hold1 EXCEPT ![prevIndex] = NoTimer] ELSE hold1
    IN  [n EXCEPT !.navTimers = t2 \cup {NavTimer(holdId, "hold", nextIndex, chord, NavHoldTicks)},
                  !.navReleaseTimeouts = rel2,
                  !.navHoldTimeouts = [hold2 EXCEPT ![nextIndex] = holdId],
                  !.navSounding = snd1,
                  !.navNotes = [n.navNotes EXCEPT ![nextIndex] = chord],
                  !.activeNavIndex = nextIndex,
                  !.navNextTimer = holdId + 1,
                  !.navGen = n.navGen + 1,
                  !.navCancelled = n.navCancelled
                       \/ \E t \in n.navTimers : t.id \in cleared]

\* the hold callback where the fade-out schedules no release
NavFireHoldOnly(n, t) ==
    IF t.kind = "hold"
    THEN [n EXCEPT !.navTimers = n.navTimers \ {t},
                   !.navHoldTimeouts = [n.navHoldTimeouts EXCEPT ![t.buf] = NoTimer]]
    ELSE [n EXCEPT !.navTimers = n.navTimers \ {t},
                   !.navSounding = [n.navSounding EXCEPT
                                       ![t.buf] = n.navSounding[t.buf] \ t.chord.notes],
                   !.navNotes = [n.navNotes EXCEPT ![t.buf] = NoChord],
                   !.navReleaseTimeouts = [n.navReleaseTimeouts EXCEPT ![t.buf] = NoTimer]]

\* a due callback runs: the hold callback starts the fade-out and schedules
\* the release; a release callback releases its chord and clears the record
NavFireOn(n, t) ==
    IF t.kind = "hold"
    THEN [n EXCEPT !.navTimers = (n.navTimers \ {t})
                        \cup {NavTimer(n.navNextTimer, "release", t.buf, t.chord, NavFadeTicks)},
                   !.navReleaseTimeouts = [n.navReleaseTimeouts EXCEPT ![t.buf] = n.navNextTimer],
                   !.navHoldTimeouts = [n.navHoldTimeouts EXCEPT ![t.buf] = NoTimer],
                   !.navNextTimer = n.navNextTimer + 1]
    ELSE [n EXCEPT !.navTimers = n.navTimers \ {t},
                   !.navSounding = [n.navSounding EXCEPT
                                       ![t.buf] = n.navSounding[t.buf] \ t.chord.notes],
                   !.navNotes = [n.navNotes EXCEPT ![t.buf] = NoChord],
                   !.navReleaseTimeouts = [n.navReleaseTimeouts EXCEPT ![t.buf] = NoTimer]]

\* the start button: the audio chain and both nav synths are created
NavStart ==
    /\ ~navStarted
    /\ navStarted' = TRUE
    /\ UNCHANGED <<activeNavIndex, navNotes, navReleaseTimeouts, navHoldTimeouts,
                   navTimers, navSounding, navNextTimer, navGen, navCancelled,
                   navSince>>

\* a padChord event
PlayNavChord(notes) ==
    /\ navGen < MaxNavTriggers
    /\ IF navStarted
       THEN SetNav(PlayNavChordOn(Nav, notes)) /\ navSince' = 0
       ELSE UNCHANGED <<activeNavIndex, navNotes, navReleaseTimeouts,
                        navHoldTimeouts, navTimers, navSounding, navNextTimer,
                        navGen, navCancelled, navSince>>
    /\ UNCHANGED navStarted

\* a mute event: releaseAll on both nav synths
NavMute ==
    /\ navStarted
    /\ navSounding' = [i \in Buffers |-> {}]
    /\ UNCHANGED <<navStarted, activeNavIndex, navNotes, navReleaseTimeouts,
                   navHoldTimeouts, navTimers, navNextTimer, navGen,
                   navCancelled, navSince>>

NavTimerFire(t) ==
    /\ t \in navTimers
    /\ t.left = 0
    /\ SetNav(NavFireOn(Nav, t))
    /\ UNCHANGED <<navStarted, navSince>>

\* 75 ms pass; the event loop runs every due callback before more time passes
NavTick ==
    /\ \A t \in navTimers : t.left > 0
    /\ navTimers # {} \/ (navGen > 0 /\ navSince < NavSinceCap)
    /\ navTimers' = {[t EXCEPT !.left = t.left - 1] : t \in navTimers}
    /\ navSince' = IF navSince < NavSinceCap THEN navSince + 1 ELSE navSince
    /\ UNCHANGED <<navStarted, activeNavIndex, navNotes, navReleaseTimeouts,
                   navHoldTimeouts, navSounding, navNextTimer, navGen,
                   navCancelled>>

NavOnly(A) ==
    A /\ UNCHANGED <<engineVars, facadeVars, lastOp, harmonyVars, contVars, trailVars, droneVars,
                   gainVars>>

InitNav == EngineIdle /\ HarmonyIdle /\ NavIdle /\ ContIdle /\ TrailIdle /\ DroneIdle /\ GainIdle

NavFireDue == \E t \in navTimers : NavOnly(NavTimerFire(t))

NextNav ==
    \/ NavOnly(NavStart)
    \/ \E notes \in NavChordArgs : NavOnly(PlayNavChord(notes))
    \/ NavOnly(NavMute)
    \/ NavFireDue
    \/ NavOnly(NavTick)

SpecNav == InitNav /\ [][NextNav]_vars

\* the event loop keeps running: time passes and due callbacks are run
FairSpecNav ==
    /\ InitNav
    /\ [][NextNav]_vars
    /\ WF_vars(NavFireDue)
    /\ WF_vars(NavOnly(NavTick))

\* ------------------------------------------ the claims on navigation chords
ReleasePending == \E t \in navTimers : t.kind = "release"
Holds(i) == navNotes[i] # NoChord \/ navSounding[i] # {}
NavSilent ==
    /\ \A i \in Buffers : navNotes[i] = NoChord /\ navSounding[i] = {}
    /\ navTimers = {}
    /\ \A i \in Buffers : navReleaseTimeouts[i] = NoTimer /\ navHoldTimeouts[i] = NoTimer

\* C11: no timer scheduled before a retrigger of a buffer stays pending on
\* that buffer: every pending timer of a buffer was scheduled for the chord
\* now on record there, so no callback releases or clears a newer chord.
NoStaleNavTimer ==
    \A t \in navTimers :
        /\ navNotes[t.buf] = t.chord
        /\ t.id \in {navReleaseTimeouts[t.buf], navHoldTimeouts[t.buf]}

\* C11 witness: a retrigger has cleared a pending timer of its buffer, and
\* the chord it triggered is on record with only its own hold timer pending.
RetriggerCancelledTimers ==
    /\ navCancelled
    /\ \E i \in Buffers :
          /\ navNotes[i].gen = navGen
          /\ \E t \in navTimers : t.buf = i /\ t.kind = "hold" /\ t.chord.gen = navGen
          /\ \A t \in navTimers : t.buf = i => t.chord.gen = navGen

\* C12: when no release timer is pending at most one buffer holds notes; both
\* hold notes only while the previous buffer's release timer, due within one
\* fade window, is pending.
OneBufferAtSteadyState ==
    (Holds(0) /\ Holds(1)) =>
        \E t \in navTimers : t.kind = "release" /\ t.left <= NavFadeTicks

\* C12 witness: a crossfade has just ended, one fade window after the
\* trigger: the previous buffer is empty, the triggered one holds its chord.
CrossfadeEnded ==
    /\ navGen >= 2
    /\ navSince = NavFadeTicks
    /\ ~ReleasePending
    /\ \E i \in Buffers :
          /\ navNotes[i].gen = navGen /\ navSounding[i] # {}
          /\ ~Holds(1 - i)

\* C14: once chords stop being triggered (at most MaxNavTriggers are), the
\* chord on record is released by its own timers: eventually both records are
\* empty and no hold or release timer is pending.
NavChordAutoFades ==
    (\E i \in Buffers : navNotes[i] # NoChord) ~> NavSilent

\* C14 witness: everything is silent exactly one hold plus one fade after the
\* last trigger.
AutoFadeCompleted ==
    /\ navGen >= 1
    /\ navSince = NavHoldTicks + NavFadeTicks
    /\ NavSilent


\* ------------------------------------- ContinuousBehavior (held-note session)
\* One element is attached.  A MonoSynth created by onDown is modelled by the
\* log of the calls it receives: "A" triggerAttack, "ramp" frequency.rampTo,
\* "R" triggerRelease, "D" dispose.  The behavior never calls the SynthEngine.
Cont == [activeSynths |-> activeSynths, monoLog |-> monoLog, contTimers |-> contTimers]

SetCont(c) ==
    /\ activeSynths' = c.activeSynths
    /\ monoLog' = c.monoLog
    /\ contTimers' = c.contTimers

\* the onUp handler: release the element's synth and schedule its disposal
OnUpOn(c) ==
    IF c.activeSynths = NoSynth
    THEN c
    ELSE [c EXCEPT !.monoLog[c.activeSynths] = Append(@, "R"),
                   !.contTimers = @ (+) SetToBag({c.activeSynths})]

\* the window pointerup listener that attach() adds: the same, for each element
WindowUpOn(c) == OnUpOn(c)

ContAttach ==
    /\ ~contAttached
    /\ contAttached' = TRUE
    /\ UNCHANGED <<activeSynths, monoLog, contTimers, nextMono, pointerIsDown>>

\* pointerdown on the element: onDown creates a MonoSynth and attacks it
ContPointerDown ==
    /\ contAttached /\ ~pointerIsDown
    /\ nextMono <= MaxMonoSynths
    /\ monoLog' = [monoLog EXCEPT ![nextMono] = <<"A">>]
    /\ activeSynths' = nextMono
    /\ nextMono' = nextMono + 1
    /\ pointerIsDown' = TRUE
    /\ UNCHANGED <<contAttached, contTimers>>

\* pointermove on the element: onMove glides the element's synth, if any
ContPointerMove ==
    /\ contAttached
    /\ activeSynths # NoSynth
    /\ Count(monoLog[activeSynths], "ramp") < MaxMoves
    /\ monoLog' = [monoLog EXCEPT ![activeSynths] = Append(@, "ramp")]
    /\ UNCHANGED <<contAttached, activeSynths, contTimers, nextMono, pointerIsDown>>

\* One pointerup event.  On the element it runs the element's listener, then
\* bubbles to window, where the tracker's listener and the behavior's own
\* listener run; off the element only the two window listeners run.
ContPointerUp(onElement) ==
    /\ contAttached /\ pointerIsDown
    /\ LET c1 == IF onElement THEN OnUpOn(Cont) ELSE Cont
           c2 == OnUpOn(c1)
           c3 == WindowUpOn(c2)
       IN  SetCont(c3)
    /\ pointerIsDown' = FALSE
    /\ UNCHANGED <<contAttached, nextMono>>

\* a dispose callback runs, 1000 ms after the release that scheduled it
ContTimerFire(m) ==
    /\ BagIn(m, contTimers)
    /\ contTimers' = contTimers (-) SetToBag({m})
    /\ monoLog' = [monoLog EXCEPT ![m] = Append(@, "D")]
    /\ activeSynths' = NoSynth
    /\ UNCHANGED <<contAttached, nextMono, pointerIsDown>>

ContOnly(A) ==
    A /\ UNCHANGED <<engineVars, facadeVars, lastOp, harmonyVars, navVars, trailVars, droneVars,
                   gainVars>>

InitContinuous == EngineIdle /\ HarmonyIdle /\ NavIdle /\ ContIdle /\ TrailIdle /\ DroneIdle /\ GainIdle

NextContinuous ==
    \/ ContOnly(ContAttach)
    \/ ContOnly(ContPointerDown)
    \/ ContOnly(ContPointerMove)
    \/ \E onElement \in BOOLEAN : ContOnly(ContPointerUp(onElement))
    \/ \E m \in MonoIds : ContOnly(ContTimerFire(m))

SpecContinuous == InitContinuous /\ [][NextContinuous]_vars

\* ------------------------------------------ the claim on the held-note session
Sounding(m) == Count(monoLog[m], "A") = 1 /\ Count(monoLog[m], "R") = 0

\* C13: between pointer-down and pointer-up there is exactly one backend
\* voice; a pointer move glides it, creating no voice and not touching the
\* engine; pointer-up triggers that voice's release exactly once.
HeldNoteSession ==
    [][/\ pointerIsDown' => Cardinality({m \in MonoIds : Sounding(m)'}) = 1
       /\ ContPointerMove =>
             (nextMono' = nextMono /\ UNCHANGED <<activeVoices, nextVoiceId, synthLog>>)
       /\ (pointerIsDown /\ ~pointerIsDown' /\ activeSynths # NoSynth) =>
             Count(monoLog'[activeSynths], "R") = 1]_vars


\* ------------------------------- HarmonyManager: queries in a changing key
\* The key is changed through setKey and modulate only, and the two scale
\* queries are made in every state so reached.  fnOut holds a query only
\* while no other call has followed it, so the state it was made in is the
\* current one.
InitHarmonyQuery ==
    /\ EngineIdle
    /\ NavIdle /\ ContIdle /\ TrailIdle /\ DroneIdle /\ GainIdle
    /\ chordPool = DefaultChordPool /\ chordSetLocked = FALSE
    /\ \E key \in KeyArgs, mode \in ModeArgs :
          /\ rootNote = NoteOf(key)
          /\ state = ConstructedState(key, mode)
    /\ raised = FALSE
    /\ everLocked = FALSE
    /\ chordExplicit = FALSE
    /\ fnOut = NoQuery

NextHarmonyQuery ==
    \/ \E key \in KeyArgs, mode \in ModeArgs : HarmonyOnly(SetKey(key, mode))
    \/ \E type \in ModulationArgs : HarmonyOnly(Modulate(type))
    \/ \E degree \in DegreeArgs, octave \in QueryOctaves :
          HarmonyOnly(GetScaleNote(degree, octave))
    \/ \E roman \in AllLabels, octave \in OctaveArgs :
          HarmonyOnly(GetChord(roman, octave))

SpecHarmonyQuery == InitHarmonyQuery /\ [][NextHarmonyQuery]_vars

\* ------------------------------- the claims on the HarmonyManager queries
Distance(a, b) == IF a < b THEN b - a ELSE a - b

ScaleClasses == {state.scale[i] : i \in DOMAIN state.scale}

\* x is a pitch whose class, taken from the root, is an interval of the scale
InKey(x) == x # NaN /\ ((x - rootNote) % 12) \in ScaleClasses

\* C21: quantizeToScale(p) is an in-key MIDI pitch and no in-key pitch is
\* strictly nearer to p; of equally near scale intervals the first of the
\* ascending scan is chosen.
QuantizeIsNearestInKey ==
    fnOut.fn = "quantizeToScale" =>
       LET p == fnOut.arg[1]
           q == fnOut.result[1]
       IN  /\ InKey(q)
           /\ \A x \in 0..(MaxPitch + 12) :
                 InKey(x) => Distance(x, p) >= Distance(q, p)

DegreeOfLabel(roman) ==
    IF roman \in DOMAIN ROMAN_TO_DEGREE THEN ROMAN_TO_DEGREE[roman] ELSE 0

DefaultedKey == state.key \notin DOMAIN NOTE_MAP \/ state.mode \notin DOMAIN MODES

TrailEntry(name) ==
    [op |-> name, root |-> rootNote, mode |-> state.mode, scale |-> state.scale]

LastTwo(t) == IF Len(t) > 2 THEN SubSeq(t, Len(t) - 1, Len(t)) ELSE t

Traced(A, name) ==
    /\ A
    /\ hTrail' = LastTwo(Append(hTrail, TrailEntry(name)))
    /\ UNCHANGED <<engineVars, facadeVars, lastOp, navVars, contVars,
                   releaseLog, droneVars, gainVars>>

InitModulate ==
    /\ EngineIdle
    /\ NavIdle /\ ContIdle /\ TrailIdle /\ DroneIdle /\ GainIdle
    /\ chordPool = DefaultChordPool /\ chordSetLocked = FALSE
    /\ \E key \in AllKeys, mode \in AllModes :
          /\ rootNote = NoteOf(key)
          /\ state = ConstructedState(key, mode)
    /\ raised = FALSE
    /\ everLocked = FALSE
    /\ chordExplicit = FALSE
    /\ fnOut = NoQuery

NextModulate ==
    \/ \E type \in ModulationArgs : Traced(Modulate(type), type)
    \/ \E intervals \in ScaleArgs : Traced(SetScale(intervals), "setScale")

SpecModulate == InitModulate /\ [][NextModulate]_vars

\* ---------------------------------------------- the claims on modulation
\* the last two calls were a and then b
LastCalls(a, b) == Len(hTrail) = 2 /\ hTrail[1].op = a /\ hTrail[2].op = b

\* C24: from every harmony state, modulate('dominant') followed by
\* modulate('subdominant') returns the root pitch class to its original
\* value (+7 then +5, mod 12) and leaves mode and scale unchanged.
DominantThenSubdominantReturns ==
    LastCalls("dominant", "subdominant") =>
       /\ hTrail[2].root = (hTrail[1].root + 7) % 12
       /\ rootNote = (hTrail[2].root + 5) % 12
       /\ rootNote = hTrail[1].root
       /\ state.mode = hTrail[1].mode /\ state.mode = hTrail[2].mode
       /\ state.scale = hTrail[1].scale /\ state.scale = hTrail[2].scale

\* the round trip from A, through E, where both shifts wrap past 11
RoundTripFromA ==
    /\ LastCalls("dominant", "subdominant")
    /\ hTrail[1].root = 9
    /\ hTrail[2].root = 4
    /\ rootNote = 9

\* C25: modulate('relative') from major moves the root down 3 semitones
\* (mod 12) and makes mode and scale minor; from minor it moves the root up
\* 3 and makes them major; applied twice it restores root, mode and scale;
\* in any other mode it leaves root, mode and scale unchanged.
RelativeToggles ==
    /\ (Len(hTrail) >= 1 /\ hTrail[Len(hTrail)].op = "relative") =>
          LET before == hTrail[Len(hTrail)]
          IN  CASE before.mode = "major" ->
                       /\ rootNote = (before.root + 9) % 12
                       /\ state.mode = "minor"
                       /\ state.scale = MODES.minor
                [] before.mode = "minor" ->
                       /\ rootNote = (before.root + 3) % 12
                       /\ state.mode = "major"
                       /\ state.scale = MODES.major
                [] OTHER ->
                       /\ rootNote = before.root
                       /\ state.mode = before.mode
                       /\ state.scale = before.scale
    /\ LastCalls("relative", "relative") =>
          /\ rootNote = hTrail[1].root
          /\ state.mode = hTrail[1].mode
          /\ state.scale = hTrail[1].scale

\* relative applied twice from C# major, through A# minor
RelativeTwiceFromMajor ==
    /\ LastCalls("relative", "relative")
    /\ hTrail[1].root = 1 /\ hTrail[1].mode = "major"
    /\ hTrail[2].root = 10 /\ hTrail[2].mode = "minor"
    /\ hTrail[2].scale = MODES.minor
    /\ rootNote = 1 /\ state.mode = "major" /\ state.scale = MODES.major


\* ------------------------------------ the claims on the lock and setChord
\* C27: the lock flag changes only through lockHarmony and unlockHarmony:
\* setKey, setScale, modulate, setChord, setChordFromRoman and setChordPool
\* leave it unchanged, and lockHarmony / unlockHarmony change nothing but
\* the lock flag.
LockChangesOnlyByLockCalls ==
    [][ /\ state'.isLocked # state.isLocked => (LockHarmony \/ UnlockHarmony)
        /\ (LockHarmony \/ UnlockHarmony) =>
              /\ rootNote' = rootNote
              /\ chordPool' = chordPool
              /\ state' = [state EXCEPT !.isLocked = state'.isLocked]
        /\ \A chords \in PoolArgs :
              SetChordPool(chords) => state'.isLocked = state.isLocked
      ]_vars

\* locked, a setKey made meanwhile (the chord of C major survived the change
\* of mode), a chord pool set, and unlocked again
LockedThenUnlocked ==
    /\ everLocked
    /\ ~state.isLocked
    /\ ~chordExplicit
    /\ state.mode = "pentatonic_minor"
    /\ state.chord = <<60, 64, 67>>
    /\ chordPool # DefaultChordPool

\* C28: setChord(pitches) sets the active chord to exactly the given pitches
\* in the locked and in the unlocked state, and changes neither root, mode,
\* scale nor the lock flag.
SetChordAlwaysApplies ==
    [][ \A notes \in ChordArgs :
           SetChord(notes) =>
              /\ state'.chord = notes
              /\ rootNote' = rootNote
              /\ state'.key = state.key
              /\ state'.mode = state.mode
              /\ state'.scale = state.scale
              /\ state'.isLocked = state.isLocked
      ]_vars

ChordSetWhileLocked ==
    /\ state.isLocked
    /\ chordSetLocked
    /\ state.chord = <<61, 66>>


\* ------------------------------------------- SynthEngine: voice stealing
\* Release times are in milliseconds: stealVoice passes 0.05 s to stopNote,
\* whose default is 0.1 s.  releaseLog holds the triggerRelease calls of the
\* last call made: the voice and the release time of each.
QuickReleaseMs == 50
DefaultReleaseMs == 100

StopNoteReleases(e, id, releaseTime) ==
    IF id \notin DOMAIN e.activeVoices THEN <<>>
    ELSE <<[id |-> id, releaseTime |-> releaseTime]>>

StealReleases(e) ==
    IF OldestId(e) = NoVoice THEN <<>>
    ELSE StopNoteReleases(e, OldestId(e), QuickReleaseMs)

PlayNoteReleases(e) ==
    IF isInitialized /\ Cardinality(DOMAIN e.activeVoices) >= polyphony
    THEN StealReleases(e) ELSE <<>>

\* Tone.now() is the audio context's currentTime plus its lookAhead, a
\* setting of the page: a reading may lie below the one before it.  A step
\* is the difference of two successive readings.
StampSteps == {-3, 0, 5, 7}

PlayNoteAt(timed, voiceName, dt) ==
    LET r == PlayNoteOn(Eng, timed, voiceName, dt) IN
    /\ (isInitialized /\ voiceName \in voices) => nextVoiceId < MaxVoices
    /\ now + dt \in 0..MaxStamp
    /\ WithinBounds(r.e)
    /\ SetEng(r.e)
    /\ UNCHANGED <<isInitialized, initPending, chainBuilt, voices, polyphony,
                   isMuted, masterOut, facadeVars>>

Logged(name, id, ret, releases) ==
    /\ lastOp' = Op(name, id, ret)
    /\ releaseLog' = releases
    /\ UNCHANGED <<harmonyVars, navVars, contVars, hTrail, droneVars, gainVars>>

NextSteal ==
    \/ InitBegin /\ Logged("init", NoVoice, NoVoice, <<>>)
    \/ InitComplete /\ Logged("initDone", NoVoice, NoVoice, <<>>)
    \/ \E name \in RegisterNames :
          RegisterVoice(name) /\ Logged("registerVoice", NoVoice, NoVoice, <<>>)
    \/ \E n \in 1..MaxVoices :
          UpdateConfigPolyphony(n) /\ Logged("updateConfig", NoVoice, NoVoice, <<>>)
    \/ \E timed \in BOOLEAN, voiceName \in RequestNames, dt \in StampSteps :
          PlayNoteAt(timed, voiceName, dt)
            /\ Logged("playNote", NoVoice, PlayNoteOn(Eng, timed, voiceName, dt).ret,
                        PlayNoteReleases(Eng))
    \/ \E id \in VoiceIds :
          StopNote(id)
            /\ Logged("stopNote", id, NoVoice,
                        StopNoteReleases(Eng, id, DefaultReleaseMs))
    \/ \E t \in TimerUniverse :
          FireTimer(t) /\ Logged(t.kind \o "Timer", t.id, NoVoice, <<>>)

SpecSteal == Init /\ [][NextSteal]_vars

\* ------------------------------------------- the claim on voice stealing
\* the registered voices no voice is older than
Oldest == {v \in DOMAIN activeVoices :
              \A j \in DOMAIN activeVoices :
                  activeVoices[j].startTime >= activeVoices[v].startTime}

\* C30: a steal acts on exactly one voice, one with the smallest allocation
\* timestamp among all voices in the registry (of voices allocated at 5, 2
\* and 9 the one allocated at 2), and releases it with the 0.05 s release;
\* no other voice is released by the steal.
StealReleasesOldestOnly ==
    [][ lastOp'.op = "playNote" =>
           LET steals == /\ isInitialized
                         /\ Cardinality(DOMAIN activeVoices) >= polyphony
               touched == {v \in DOMAIN activeVoices : synthLog'[v] # synthLog[v]}
           IN  IF steals
               THEN /\ Len(releaseLog') = 1
                    /\ releaseLog'[1].id \in Oldest
                    /\ releaseLog'[1].releaseTime = 50
                    /\ touched = {releaseLog'[1].id}
                    /\ synthLog'[releaseLog'[1].id] =
                          Append(synthLog[releaseLog'[1].id], "R")
                    /\ CopiesIn(CleanupTimer(releaseLog'[1].id), timers') =
                          CopiesIn(CleanupTimer(releaseLog'[1].id), timers) + 1
               ELSE releaseLog' = <<>> /\ touched = {}
      ]_vars

\* voices allocated at 5, 2 and 9, in that order, and a steal that released
\* the second
StoleTheVoiceAllocatedAtTwo ==
    /\ lastOp.op = "playNote"
    /\ DOMAIN activeVoices = {0, 1, 2}
    /\ activeVoices[0].startTime = 5
    /\ activeVoices[1].startTime = 2
    /\ activeVoices[2].startTime = 9
    /\ releaseLog = <<[id |-> 1, releaseTime |-> 50]>>
    /\ synthLog[0] = <<"A">> /\ synthLog[1] = <<"A", "R">> /\ synthLog[2] = <<"A">>

\* ------------------------------------- SynthEngine: stopAllNotes to the end
\* The engine, with the stopAllNotes call recorded (lastOp, and in releaseLog
\* the triggerRelease calls it made) and no playNote made after it.  A
\* pending setTimeout callback is eventually run.
RECURSIVE ReleasesOfEach(_, _)
ReleasesOfEach(e, ids) ==
    IF ids = {} THEN <<>>
    ELSE LET id == CHOOSE i \in ids : \A j \in ids : i <= j
         IN StopNoteReleases(e, id, DefaultReleaseMs)
               \o ReleasesOfEach(StopNoteOn(e, id), ids \ {id})

StopAllNotesReleases(e) == ReleasesOfEach(e, DOMAIN e.activeVoices)

NextStopAll ==
    \/ Quiet(InitBegin)
    \/ Quiet(InitComplete)
    \/ \E name \in RegisterNames : Quiet(RegisterVoice(name))
    \/ \E timed \in BOOLEAN, voiceName \in RequestNames :
          lastOp.op # "stopAllNotes" /\ Quiet(PlayNote(timed, voiceName))
    \/ \E id \in VoiceIds : Quiet(StopNote(id))
    \/ StopAllNotes
          /\ Logged("stopAllNotes", NoVoice, NoVoice, StopAllNotesReleases(Eng))
    \/ Quiet(Destroy)
    \/ \E t \in TimerUniverse : Quiet(FireTimer(t))

FairSpecStopAll ==
    /\ Init
    /\ [][NextStopAll]_vars
    /\ \A t \in TimerUniverse : WF_vars(Quiet(FireTimer(t)))

\* ---------------------------------------------- the claim on stopAllNotes
StoppedByStopAll(v) ==
    /\ lastOp.op = "stopAllNotes"
    /\ \E i \in 1..Len(releaseLog) : releaseLog[i].id = v

\* C31: stopAllNotes releases every voice that is in the registry when it is
\* called, and if no further playNote follows, the registry eventually
\* becomes empty with every one of those voices disposed.
StopAllNotesEmptiesRegistry ==
    /\ [][ /\ StopAllNotes =>
                 \A v \in DOMAIN activeVoices :
                    /\ synthLog'[v] = Append(synthLog[v], "R")
                    /\ CopiesIn(CleanupTimer(v), timers') =
                          CopiesIn(CleanupTimer(v), timers) + 1
           /\ (lastOp'.op = "stopAllNotes" /\ lastOp.op # "stopAllNotes") =>
                 {releaseLog'[i].id : i \in 1..Len(releaseLog')} = DOMAIN activeVoices
         ]_vars
    /\ \A v \in VoiceIds :
          StoppedByStopAll(v) ~> (activeVoices = <<>> /\ Disposals(v) >= 1)

\* two voices were stopped by stopAllNotes and both are disposed since
StopAllNotesRanToTheEnd ==
    /\ StoppedByStopAll(0) /\ StoppedByStopAll(1)
    /\ activeVoices = <<>>
    /\ Disposals(0) = 1 /\ Disposals(1) = 1

\* ---------------------------------- further claims on the engine (Spec)
\* C32: a playNote call made before init() has completed, also while init
\* awaits the impulse response, is rejected: it returns the empty sentinel,
\* creates no backend instance, adds no voice record and steals nothing.
PlayNoteRejectedBeforeInit ==
    [][ (lastOp'.op = "playNote" /\ ~isInitialized) =>
           /\ lastOp'.ret = NoVoice
           /\ UNCHANGED <<activeVoices, synthLog, timers, nextVoiceId>>
      ]_vars

\* a playNote rejected while init() awaits, with the voice registered
RejectedWhileInitPending ==
    /\ lastOp.op = "playNote"
    /\ lastOp.ret = NoVoice
    /\ initPending /\ ~isInitialized /\ chainBuilt
    /\ "synth" \in voices
    /\ activeVoices = <<>>
    /\ nextVoiceId = 0

\* C33: every successful playNote returns an identifier never returned
\* before, identifiers increase in allocation order, an identifier is not
\* reused after its voice is disposed, and a rejected playNote consumes no
\* identifier.
VoiceIdsUniqueAndMonotonic ==
    [][ /\ lastOp'.op = "playNote" =>
              IF lastOp'.ret = NoVoice
              THEN nextVoiceId' = nextVoiceId
              ELSE /\ lastOp'.ret = nextVoiceId
                   /\ nextVoiceId' = nextVoiceId + 1
                   /\ synthLog[lastOp'.ret] = <<>>
                   /\ lastOp'.ret \notin DOMAIN activeVoices
                   /\ lastOp'.ret \in DOMAIN activeVoices'
        /\ lastOp'.op # "playNote" => nextVoiceId' = nextVoiceId
        /\ \A id \in VoiceIds :
              id >= nextVoiceId => (synthLog[id] = <<>> /\ id \notin DOMAIN activeVoices)
      ]_vars

\* voice 0 was disposed and the playNote after it returned 1
NewIdAfterDisposal ==
    /\ lastOp.op = "playNote"
    /\ lastOp.ret = 1
    /\ Disposals(0) = 1
    /\ 0 \notin DOMAIN activeVoices
    /\ nextVoiceId = 2

\* --------------------------- the claim on the held-note session's cleanup
\* C34: the dispose timer scheduled at pointer-up disposes and unregisters
\* only the voice of the session that scheduled it; a session started by a
\* new pointer-down before that timer fires stays registered, follows
\* pointer moves and is released by its own pointer-up (no stuck note).
CleanupBoundToItsSession ==
    /\ pointerIsDown => (activeSynths # NoSynth /\ Sounding(activeSynths))
    /\ ~pointerIsDown => \A m \in MonoIds : ~Sounding(m)
    /\ \A m \in MonoIds : Count(monoLog[m], "D") > 0 => Count(monoLog[m], "R") > 0

\* ---------------------------------------------------------------------------
\* DroneBehavior: start() and stop() with the cleanup callback of stop()
\* ---------------------------------------------------------------------------

DroneOnly(A) ==
    A /\ UNCHANGED <<engineVars, facadeVars, lastOp, harmonyVars, navVars, contVars,
                     trailVars, gainVars>>

\* start(): dropped while isActive; otherwise the flag is set and the new
\* synths are pushed onto this.voices and attacked
DroneStart ==
    /\ droneNext <= MaxDroneStarts
    /\ droneWanted' = TRUE
    /\ IF droneIsActive
         THEN UNCHANGED <<droneIsActive, droneVoices, droneLog, droneTimers, droneNext>>
         ELSE /\ droneIsActive' = TRUE
              /\ droneVoices' = droneVoices \cup {droneNext}
              /\ droneLog' = [droneLog EXCEPT ![droneNext] = Append(@, "A")]
              /\ droneNext' = droneNext + 1
              /\ UNCHANGED droneTimers

\* stop(): dropped while not isActive; otherwise every synth of this.voices is
\* released and a cleanup callback is set for 3000 ms later; isActive stays
DroneStop ==
    /\ droneTimers < MaxDroneStops
    /\ droneWanted' = FALSE
    /\ IF ~droneIsActive
         THEN UNCHANGED <<droneIsActive, droneVoices, droneLog, droneTimers, droneNext>>
         ELSE /\ droneLog' = [g \in DroneStarts |->
                                IF g \in droneVoices THEN Append(droneLog[g], "R")
                                                     ELSE droneLog[g]]
              /\ droneTimers' = droneTimers + 1
              /\ UNCHANGED <<droneIsActive, droneVoices, droneNext>>

\* the callback of stop(): disposes whatever this.voices holds when it runs,
\* empties the list and clears the flag
DroneTimerFire ==
    /\ droneTimers > 0
    /\ droneTimers' = droneTimers - 1
    /\ droneLog' = [g \in DroneStarts |->
                      IF g \in droneVoices THEN Append(droneLog[g], "D")
                                           ELSE droneLog[g]]
    /\ droneVoices' = {}
    /\ droneIsActive' = FALSE
    /\ UNCHANGED <<droneNext, droneWanted>>

InitDrone == EngineIdle /\ OthersIdle

NextDrone ==
    \/ DroneOnly(DroneStart)
    \/ DroneOnly(DroneStop)
    \/ DroneOnly(DroneTimerFire)

SpecDrone == InitDrone /\ [][NextDrone]_vars

\* C35: whenever the last drone call made was start(), the drone is active and
\* holds synths that were attacked and neither released nor disposed since: no
\* start() is dropped and no callback of an earlier stop() reaches the synths
\* of a later start() or clears the flag
DroneSoundsOnceStarted ==
    droneWanted =>
        /\ droneIsActive
        /\ droneVoices # {}
        /\ \A g \in droneVoices : droneLog[g] = <<"A">>

\* ---------------------------------------------------------------------------
\* The master volume: setVolume, updateConfig and setPreset next to mute
\* ---------------------------------------------------------------------------

\* SynthEngine.setVolume(db), db finite: config.masterVolume is stored and the
\* master volume, if built, ramps to it; isMuted is not read
SetVolumeOn(m) ==
    IF chainBuilt THEN [m EXCEPT !.masterOut = "level"] ELSE m

\* SynthEngine.updateConfig(config): setVolume when config.masterVolume is given
UpdateConfigOn(m, hasVolume) ==
    IF hasVolume THEN SetVolumeOn(m) ELSE m

\* the presets of presets/index.ts; every pack defines masterVolume, and an
\* unknown name yields the ambient pack
PresetNames == {"ambient", "playful", "dramatic", "glitchy", "unknown"}

\* SonicUX.setVolume(db)
SetVolume ==
    /\ SetMaster(SetVolumeOn(Master))
    /\ UNCHANGED <<isInitialized, initPending, chainBuilt, voices, polyphony,
                   activeVoices, nextVoiceId, now, timers, synthLog, facadeVars>>

\* SynthEngine.updateConfig with or without a masterVolume
UpdateConfigMaster(hasVolume) ==
    /\ SetMaster(UpdateConfigOn(Master, hasVolume))
    /\ UNCHANGED <<isInitialized, initPending, chainBuilt, voices, polyphony,
                   activeVoices, nextVoiceId, now, timers, synthLog, facadeVars>>

\* SonicUX.setPreset(name): applyPreset passes the pack's masterVolume to updateConfig
SetPreset(name) ==
    /\ name \in PresetNames
    /\ SetMaster(UpdateConfigOn(Master, TRUE))
    /\ UNCHANGED <<isInitialized, initPending, chainBuilt, voices, polyphony,
                   activeVoices, nextVoiceId, now, timers, synthLog, facadeVars>>

\* a host holding a SonicUX instance that uses the global controls
NextMaster ==
    \/ InitBegin /\ Track("init", NoVoice, NoVoice)
    \/ InitComplete /\ Track("initDone", NoVoice, NoVoice)
    \/ Mute /\ Track("mute", NoVoice, NoVoice)
    \/ Unmute /\ Track("unmute", NoVoice, NoVoice)
    \/ Enable /\ Track("enable", NoVoice, NoVoice)
    \/ Disable /\ Track("disable", NoVoice, NoVoice)
    \/ SetVolume /\ Track("setVolume", NoVoice, NoVoice)
    \/ \E hasVolume \in BOOLEAN :
          UpdateConfigMaster(hasVolume) /\ Track("updateConfig", NoVoice, NoVoice)
    \/ \E name \in PresetNames : SetPreset(name) /\ Track("setPreset", NoVoice, NoVoice)
    \/ SonicDestroy /\ Track("destroy", NoVoice, NoVoice)
    \/ \E t \in TimerUniverse : FireTimer(t) /\ Track(t.kind \o "Timer", t.id, NoVoice)

SpecMaster == InitFacade /\ [][NextMaster]_vars

\* C36: the muted flag is true exactly when the master output is silenced, and
\* a silenced master output becomes audible only by unmute() or enable()
MuteHoldsUntilUnmute ==
    /\ [](isMuted <=> masterOut = "silent")
    /\ [][(masterOut = "silent" /\ masterOut' # "silent")
            => lastOp'.op \in {"unmute", "enable"}]_vars

\* ------------------------------------- the claim on stealing a voice twice
\* C37: a steal never selects a voice that stopNote has released already, so
\* no voice is stolen twice and the steals of consecutive playNote calls at
\* the ceiling release distinct voices
StolenAtMostOnce ==
    [][ (lastOp'.op = "playNote" /\ releaseLog' # <<>>) =>
           \A i \in 1..Len(releaseLog') :
               Count(synthLog[releaseLog'[i].id], "R") = 0
      ]_vars

\* ------------------------------------------- the claim on the key's name
\* the last harmony call made was a modulation
JustModulated == hTrail # <<>> /\ hTrail[Len(hTrail)].op \in ModulationArgs

NaturalNames == {"C", "D", "E", "F", "G", "A", "B"}

\* C38: after every modulate call the key name denotes the current root (its
\* NOTE_MAP value is the root): the natural name when the root has one, else
\* the first accidental spelling in table order (C#, D#, F#, G#, A#)
KeyNameDenotesRoot ==
    JustModulated =>
        /\ state.key \in DOMAIN NOTE_MAP
        /\ NOTE_MAP[state.key] = rootNote
        /\ IF \E name \in NaturalNames : NOTE_MAP[name] = rootNote
           THEN state.key \in NaturalNames
           ELSE state.key \in {"C#", "D#", "F#", "G#", "A#"}

\* a dominant modulation from the root F# / Gb to the root C# / Db
ModulatedToCSharp ==
    /\ JustModulated
    /\ hTrail[Len(hTrail)].op = "dominant"
    /\ hTrail[Len(hTrail)].root = 6
    /\ rootNote = 1
    /\ state.key = "C#"

\* ---------------------------------------------------------------------------
\* The nav gains (basic-usage/main.js): crossfade ramps and the frame loop
\* ---------------------------------------------------------------------------
\* navGain is volume.value of navGainA / navGainB in dB, read at the 75 ms
\* ticks of the nav model.  rampTo(goal, seconds) reaches its goal after the
\* given time from whatever the value is: NAV_FADE_SEC is 2 ticks, the 0.05 s
\* of applyParams less than one.  navTargetDb is taken at its initial value
\* (applyParams recomputes it from params.master; -18 is params.master = 1/3).
NavTargetDb == -18
NavAudibleDb == -50
ParamsRampTicks == 1

Ramp(goal, ticks) == [goal |-> goal, left |-> ticks]

\* the value of a gain one tick later
GainAfterTick(db, r) ==
    IF r.left = 0 THEN db ELSE db + ((r.goal - db) \div r.left)

RampAfterTick(r) ==
    IF r.left <= 1 THEN NoRamp ELSE [r EXCEPT !.left = r.left - 1]

\* playNavChord: the triggered buffer starts from -60 and fades in; the
\* previous buffer, if it holds notes, fades out
PlayNavChordGains(n, g) ==
    LET nextIndex == IF n.activeNavIndex = 0 THEN 1 ELSE 0
        prevIndex == n.activeNavIndex
        hasPrev == n.navNotes[prevIndex] # NoChord
        ramp1 == [g.navRamp EXCEPT ![nextIndex] = Ramp(NavTargetDb, NavFadeTicks)]
    IN  [navGain |-> [g.navGain EXCEPT ![nextIndex] = NavSilentDb],
         navRamp |-> IF hasPrev
                     THEN [ramp1 EXCEPT ![prevIndex] = Ramp(NavSilentDb, NavFadeTicks)]
                     ELSE ramp1]

\* the hold callback: nextGain.volume.rampTo(-60, NAV_FADE_SEC)
NavFireGains(t, g) ==
    IF t.kind = "hold"
    THEN [g EXCEPT !.navRamp = [g.navRamp EXCEPT ![t.buf] = Ramp(NavSilentDb, NavFadeTicks)]]
    ELSE g

\* applyParams: each nav gain whose value is above -50 ramps to navTargetDb
ApplyParamsOn(g) ==
    [g EXCEPT !.navRamp = [b \in Buffers |->
                              IF g.navGain[b] > NavAudibleDb
                              THEN Ramp(NavTargetDb, ParamsRampTicks)
                              ELSE g.navRamp[b]]]

Gains == [navGain |-> navGain, navRamp |-> navRamp]

SetGains(g) ==
    /\ navGain' = g.navGain
    /\ navRamp' = g.navRamp

GainStep(A) ==
    A /\ UNCHANGED <<engineVars, facadeVars, lastOp, harmonyVars, contVars, trailVars,
                     droneVars>>

\* a padChord event, with the gains
PlayNavChordFaded(notes) ==
    /\ PlayNavChord(notes)
    /\ IF navStarted THEN SetGains(PlayNavChordGains(Nav, Gains))
                     ELSE UNCHANGED gainVars

NavTimerFireFaded(t) ==
    /\ NavTimerFire(t)
    /\ SetGains(NavFireGains(t, Gains))

\* 75 ms pass: every ramp advances
NavTickFaded ==
    /\ NavTick
    /\ navGain' = [b \in Buffers |-> GainAfterTick(navGain[b], navRamp[b])]
    /\ navRamp' = [b \in Buffers |-> RampAfterTick(navRamp[b])]

\* a frame of the tick() loop once started: applyParams(output.params)
ApplyParams ==
    /\ navStarted
    /\ SetGains(ApplyParamsOn(Gains))
    /\ UNCHANGED navVars

NextNavFrames ==
    \/ GainStep(NavStart /\ UNCHANGED gainVars)
    \/ \E notes \in NavChordArgs : GainStep(PlayNavChordFaded(notes))
    \/ \E t \in navTimers : GainStep(NavTimerFireFaded(t))
    \/ GainStep(NavTickFaded)
    \/ GainStep(ApplyParams)

SpecNavFrames == InitNav /\ [][NextNavFrames]_vars

\* a fade-out is in progress on buffer b
FadingOut(b) == navRamp[b].left > 0 /\ navRamp[b].goal = NavSilentDb

\* C39: while a nav buffer is ramping down no frame's applyParams ramps its
\* gain back up, and the buffer's gain is at -60 when its notes are released
FadeOutNotUndone ==
    [][\A b \in Buffers :
          /\ (FadingOut(b) /\ navRamp'[b].left > 0 /\ navRamp'[b].goal # NavSilentDb)
                => navGain'[b] = NavSilentDb
          /\ (navNotes[b] # NoChord /\ navNotes'[b] = NoChord)
                => navGain[b] = NavSilentDb
      ]_vars

====
